---- MODULE Spec2Model ----
(***************************************************************************)
(* A small-step model of the Concorde tree-walking interpreter             *)
(* (src/src/runtime): the object heap, the scope stack, and the evaluator  *)
(* as an abstract machine whose continuation stack `kont` holds the        *)
(* suspended Rust activations (exec, eval, eval_block, call_method, ...).  *)
(* The host feeds top-level statements to exec_program one at a time.      *)
(***************************************************************************)
EXTENDS Integers, Sequences, FiniteSets, TLC

VARIABLES
    debug_assertions,       \* cfg!(debug_assertions): whether debug_assert_eq! is compiled in
    heap,                   \* the Rc<RefCell<Object>> allocations, by object id 1..Len(heap)
    stack,                  \* Runtime.stack : Vec<StackFrame>
    stack_id,               \* Runtime.stack_id
    strings,                \* Runtime.strings : content -> (weak) object id
    string_count_marker,    \* Runtime.string_count_marker
    ctrl,                   \* what the evaluator is doing now
    kont,                   \* the suspended activations, innermost last
    executed                \* top-level statements exec_program has taken so far

vars == <<debug_assertions, heap, stack, stack_id, strings, string_count_marker,
          ctrl, kont, executed>>

-----------------------------------------------------------------------------
(* Bounds of the model.                                                    *)

\* Top-level statements one program may hold.
MaxStatements == 2
\* Frames ever pushed (Runtime.stack_id) before the model stops a run.
MaxStackId == 8
\* Objects ever allocated after bootstrap before the model stops a run.
MaxAllocations == 10
\* Calls of create_string the host makes on the string table.
MaxStringCalls == 4
\* Elements of an array that push and pop are called on.
MaxLen == 3
\* Classes of a hierarchy that method resolution is run on.
MaxClasses == 3
\* Frames above the root frame of a scope stack that names are resolved and
\* assigned on.
MaxFrames == 2

-----------------------------------------------------------------------------
(* Option<ObjectRef>::None and the empty map.                              *)

NONE == 0
EmptyMap == <<>>
Put(map, key, value) == (key :> value) @@ map
Has(map, key) == key \in DOMAIN map
\* `let value = ...;` followed by the code that uses it
With(value, Body(_)) == Body(value)

-----------------------------------------------------------------------------
(* The object ids bootstrap gives the built-ins, in allocation order.      *)

Class == 1
String == 2
Object == 5
NilClass == 7
nil == 9
Array == 10
Tuple == 12
Dictionary == 14
DictionaryIter == 16
Bool == 18
bool_true == 20
bool_false == 21
Number == 22
Main == 24
IO == 26
Closure == 28
Method == 30

STRING_ALLOCATION_THRESHOLD == 64

-----------------------------------------------------------------------------
(* Primitive payloads (object.rs Primitive).                               *)

NoPrimitive ==
    [kind |-> "None", number |-> 0, boolean |-> FALSE, string |-> "", array |-> <<>>]
PrimitiveString(s) == [NoPrimitive EXCEPT !.kind = "String", !.string = s]
PrimitiveNumber(n) == [NoPrimitive EXCEPT !.kind = "Number", !.number = n]
PrimitiveBoolean(b) == [NoPrimitive EXCEPT !.kind = "Boolean", !.boolean = b]
PrimitiveArray(a) == [NoPrimitive EXCEPT !.kind = "Array", !.array = a]

\* Object::new_of_class
new_of_class(class) ==
    [class |-> class, superclass |-> NONE, properties |-> EmptyMap,
     methods |-> EmptyMap, primitive |-> NoPrimitive]

\* Object::set_property
set_property(object, name, value) ==
    [object EXCEPT !.properties = Put(@, name, value)]

\* Object::get_property (NONE when absent)
get_property(object, name) ==
    IF Has(object.properties, name) THEN object.properties[name] ELSE NONE

\* Object::string on object `id` (the empty record kind tells None)
HasString(h, id) == h[id].primitive.kind = "String"

\* Object::__name__ : Some(string) iff the __name__ property is a String object
HasName(h, id) ==
    /\ Has(h[id].properties, "__name__")
    /\ HasString(h, h[id].properties["__name__"])
NameOf(h, id) == h[h[id].properties["__name__"]].primitive.string

-----------------------------------------------------------------------------
(* Results: Ok(value) or Err(error).  value is an object id, or NONE for   *)
(* Ok(()) .  ReturnFromMethod carries retval (NONE for a bare return),     *)
(* ArityMismatch carries expected and actual.                              *)

Ok(value) == [tag |-> "Ok", value |-> value, error |-> "", expected |-> 0, actual |-> 0]
Err(error) == [tag |-> "Err", value |-> NONE, error |-> error, expected |-> 0, actual |-> 0]
ReturnFromMethod(retval) == [Err("ReturnFromMethod") EXCEPT !.value = retval]
ArityMismatch(expected, actual) ==
    [Err("ArityMismatch") EXCEPT !.expected = expected, !.actual = actual]
Break == Err("ControlFlow::Break")
Continue == Err("ControlFlow::Continue")
IsOk(result) == result.tag = "Ok"
IsErr(result) == result.tag = "Err"

-----------------------------------------------------------------------------
(* The AST (types.rs).  A Block is a sequence of statements.               *)

Variable(name) == [t |-> "Variable", name |-> name]
Call(target, arguments) == [t |-> "Call", target |-> target, arguments |-> arguments]
Access(target, member) == [t |-> "Access", target |-> target, member |-> member]
Index(target, index) == [t |-> "Index", target |-> target, index |-> index]
Path(components) == [t |-> "Path", components |-> components]
NumberLit(n) == [t |-> "Literal", kind |-> "Number", number |-> n]
BooleanLit(b) == [t |-> "Literal", kind |-> "Boolean", boolean |-> b]
NilLit == [t |-> "Literal", kind |-> "Nil"]
StringLit(s) == [t |-> "Literal", kind |-> "StringLit", string |-> s]
TupleLit(items) == [t |-> "Literal", kind |-> "Tuple", items |-> items]
If(condition, then_body) ==
    [t |-> "IfElse", condition |-> condition, then_body |-> then_body,
     has_else |-> FALSE, else_body |-> <<>>]
IfElse(condition, then_body, else_body) ==
    [t |-> "IfElse", condition |-> condition, then_body |-> then_body,
     has_else |-> TRUE, else_body |-> else_body]
ClosureExpr(binding, body) == [t |-> "Closure", binding |-> binding, body |-> body]
Binary(lhs, op, rhs) == [t |-> "Binary", lhs |-> lhs, op |-> op, rhs |-> rhs]

Expression(expression) == [t |-> "Expression", expression |-> expression]
MethodDefinition(is_class_method, name, parameters, body) ==
    [t |-> "MethodDefinition", is_class_method |-> is_class_method, name |-> name,
     parameters |-> parameters, body |-> body]
Assignment(target, op, value) ==
    [t |-> "Assignment", target |-> target, op |-> op, value |-> value]
ClassDefinition(name, body) == [t |-> "ClassDefinition", name |-> name, body |-> body]
ForIn(binding, iterable, body) ==
    [t |-> "ForIn", binding |-> binding, iterable |-> iterable, body |-> body]
WhileLoop(condition, body) == [t |-> "WhileLoop", condition |-> condition, body |-> body]
BreakStmt == [t |-> "Break"]
ContinueStmt == [t |-> "Continue"]
Use(path) == [t |-> "Use", path |-> path]
Return(retval) == [t |-> "Return", has_retval |-> TRUE, retval |-> retval]
ReturnNothing == [t |-> "Return", has_retval |-> FALSE, retval |-> NilLit]

-----------------------------------------------------------------------------
(* Methods (object.rs Method, MethodBody, MethodReceiver).                 *)

UserBody(block) == [kind |-> "User", block |-> block, function |-> ""]
SystemBody(function) == [kind |-> "System", block |-> <<>>, function |-> function]
NewMethod(name, class, params, body, receiver) ==
    [name |-> name, class |-> class, params |-> params, body |-> body,
     receiver |-> receiver]
\* Option<MethodRef>::None
NoMethod == NewMethod("", NONE, <<>>, SystemBody(""), "")
IsSome(method) == method.class # NONE

\* A define_method that replaces a method of the same name instead of failing.
define_method_overwriting(h, id, receiver, method_name, params, body) ==
    [result |-> Ok(NONE),
     heap |-> [h EXCEPT ![id].methods =
                   Put(@, method_name,
                       NewMethod(method_name, id, params, body, receiver))]]

\* Object::define_method on object `id`: Err(DuplicateMethodDefinition) when the own
\* table has the name, else the table gains the method (owner = weak_self = id).
define_method(h, id, receiver, method_name, params, body) ==
    IF Has(h[id].methods, method_name)
    THEN [result |-> Err("DuplicateMethodDefinition"), heap |-> h]
    ELSE [result |-> Ok(NONE),
          heap |-> [h EXCEPT ![id].methods =
                        Put(@, method_name,
                            NewMethod(method_name, id, params, body, receiver))]]

\* A resolution that looks in the own table alone and never asks the superclass.
resolve_in_own_table(h, id, name) ==
    IF Has(h[id].methods, name) THEN h[id].methods[name] ELSE NoMethod

\* Object::resolve_own_method: own table first, then the superclass's resolution.
RECURSIVE resolve_own_method(_, _, _)
resolve_own_method(h, id, name) ==
    IF Has(h[id].methods, name) THEN h[id].methods[name]
    ELSE IF h[id].superclass # NONE THEN resolve_own_method(h, h[id].superclass, name)
    ELSE NoMethod

\* Object::get_init_method: the resolved init, or a synthesized system init owned by
\* the class.
get_init_method(h, class) ==
    LET found == resolve_own_method(h, class, "init") IN
    IF IsSome(found) THEN found
    ELSE NewMethod("init", class, <<>>, SystemBody("synthesized init"), "Instance")

\* Runtime::is_class
is_class(h, id) == h[id].class = Class

-----------------------------------------------------------------------------
(* Stack frames (mod.rs StackFrame) and the scope-stack operations.        *)

NewFrame(instance, class, variables) ==
    [id |-> 0, instance |-> instance, class |-> class, open_classes |-> <<>>,
     variables |-> variables]
DefaultFrame == NewFrame(NONE, NONE, EmptyMap)

\* Runtime::find_closest_in_stack for the instance / class slot (NONE when absent)
RECURSIVE ClosestInstance(_, _)
ClosestInstance(st, i) ==
    IF i = 0 THEN NONE
    ELSE IF st[i].instance # NONE THEN st[i].instance
    ELSE ClosestInstance(st, i - 1)
RECURSIVE ClosestClass(_, _)
ClosestClass(st, i) ==
    IF i = 0 THEN NONE
    ELSE IF st[i].class # NONE THEN st[i].class
    ELSE ClosestClass(st, i - 1)
current_instance(st) == ClosestInstance(st, Len(st))
current_class(st) == ClosestClass(st, Len(st))

\* Runtime::define_variable / assign_global / assign_variable
define_variable(st, name, object) ==
    [st EXCEPT ![Len(st)].variables = Put(@, name, object)]
assign_global(st, name, object) ==
    [st EXCEPT ![1].variables = Put(@, name, object)]
\* an assignment that always binds in the bottom frame
assign_in_bottom_frame(st, name, object) == assign_global(st, name, object)
\* an assignment that never looks for the frame that already has the name
assign_in_top_frame(st, name, object) == define_variable(st, name, object)
RECURSIVE NearestFrameWith(_, _, _)
NearestFrameWith(st, name, i) ==
    IF i = 0 THEN 0
    ELSE IF Has(st[i].variables, name) THEN i
    ELSE NearestFrameWith(st, name, i - 1)
assign_variable(st, name, object) ==
    LET i == NearestFrameWith(st, name, Len(st)) IN
    IF i # 0 THEN [st EXCEPT ![i].variables = Put(@, name, object)]
    ELSE define_variable(st, name, object)

-----------------------------------------------------------------------------
(* Control states and continuation frames.  Every one lists in `refs` the  *)
(* object references its Rust activation holds, which keep objects alive.  *)

Range(f) == {f[x] : x \in DOMAIN f}
Some(ids) == SelectSeq(ids, LAMBDA id : id # NONE)

AtExecProgram == [mode |-> "exec_program", refs |-> <<>>]
Exited(result) == [mode |-> "exited", result |-> result, refs |-> <<>>]
Panicked(message) == [mode |-> "panic", message |-> message, refs |-> <<>>]
Exec(statement) == [mode |-> "exec", statement |-> statement, refs |-> <<>>]
Eval(expression) == [mode |-> "eval", expression |-> expression, refs |-> <<>>]
EvalBlock(block) == [mode |-> "eval_block", block |-> block, refs |-> <<>>]
CallMethod(receiver, method, arguments) ==
    [mode |-> "call_method", receiver |-> receiver, method |-> method,
     arguments |-> arguments, refs |-> <<receiver>> \o arguments]
Returning(result) ==
    [mode |-> "return", result |-> result, refs |-> Some(<<result.value>>)]
ReturningList(values) == [mode |-> "return_list", values |-> values, refs |-> values]

\* Objects reachable by strong references from the roots: the built-ins, the scope
\* stack, and what the running activations hold.
StackRefs(st) ==
    UNION {({st[i].instance, st[i].class} \ {NONE}) \cup Range(st[i].open_classes)
           \cup Range(st[i].variables) : i \in DOMAIN st}
Builtins ==
    {Class, String, Object, NilClass, nil, Array, Tuple, Dictionary, DictionaryIter,
     Bool, bool_true, bool_false, Number, Main, IO, Closure, Method}
Roots ==
    Builtins \cup StackRefs(stack) \cup Range(ctrl.refs)
    \cup UNION {Range(kont[i].refs) : i \in DOMAIN kont}
StrongRefs(object) ==
    ({object.class, object.superclass} \ {NONE}) \cup Range(object.properties)
    \cup Range(object.primitive.array)
RECURSIVE Reachable(_, _, _)
Reachable(h, frontier, seen) ==
    IF frontier = {} THEN seen
    ELSE LET next == (UNION {StrongRefs(h[id]) : id \in frontier}) \ (seen \cup frontier)
         IN Reachable(h, next, seen \cup frontier)
\* Weak::upgrade succeeds on object `id`
Upgrade(h, id) == id \in Reachable(h, Roots \cap DOMAIN h, {})

-----------------------------------------------------------------------------
(* Allocation (mod.rs).  rt is the part of the Runtime these touch:        *)
(* [heap, strings, string_count_marker]; each returns the new rt and the   *)
(* id of the object made.                                                  *)

\* Runtime::create_object: a new object of the class, with its __class__ property.
create_object(rt, class) ==
    [rt |-> [rt EXCEPT !.heap =
                Append(@, set_property(new_of_class(class), "__class__", class))],
     value |-> Len(rt.heap) + 1]

\* a sweep that drops the dead entries and leaves the marker where it was
cleanup_strings_keeping_marker(rt, locals) ==
    With(Reachable(rt.heap, (Roots \cup locals) \cap DOMAIN rt.heap, {}), LAMBDA live :
    With({key \in DOMAIN rt.strings : rt.strings[key] \in live}, LAMBDA kept :
        [rt EXCEPT !.strings = [key \in kept |-> rt.strings[key]]]))
\* Runtime::cleanup_strings: drop the entries whose object is dead; move the marker.
\* `locals` are the objects the caller holds in local variables during the sweep.
cleanup_strings_holding(rt, locals) ==
    With(Reachable(rt.heap, (Roots \cup locals) \cap DOMAIN rt.heap, {}), LAMBDA live :
    With({key \in DOMAIN rt.strings : rt.strings[key] \in live}, LAMBDA kept :
        [rt EXCEPT !.strings = [key \in kept |-> rt.strings[key]],
                   !.string_count_marker = Cardinality(kept)]))
cleanup_strings(rt) == cleanup_strings_holding(rt, {})

\* Runtime::allocate_string (string_obj is held while the sweep runs)
allocate_string(rt, value) ==
    With(create_object(rt, String), LAMBDA made :
    With([made.rt EXCEPT !.heap[made.value].primitive = PrimitiveString(value),
                         !.strings = Put(@, value, made.value)], LAMBDA with_entry :
        [rt |-> IF Cardinality(DOMAIN with_entry.strings) - with_entry.string_count_marker
                      >= STRING_ALLOCATION_THRESHOLD
                THEN cleanup_strings_holding(with_entry, {made.value}) ELSE with_entry,
         value |-> made.value]))

\* a create_string that never consults the table
create_string_uninterned(rt, value) == allocate_string(rt, value)
\* Runtime::create_string: the interned object when its weak entry upgrades.
create_string(rt, value) ==
    IF Has(rt.strings, value) /\ Upgrade(rt.heap, rt.strings[value])
    THEN [rt |-> rt, value |-> rt.strings[value]]
    ELSE allocate_string(rt, value)

\* a create_bool that gives the true object whatever the value
always_bool_true(value) == bool_true
\* Runtime::create_bool
create_bool(value) == IF value THEN bool_true ELSE bool_false

\* Runtime::create_number / create_tuple
create_number(rt, value) ==
    With(create_object(rt, Number), LAMBDA made :
        [rt |-> [made.rt EXCEPT !.heap[made.value].primitive = PrimitiveNumber(value)],
         value |-> made.value])
create_tuple(rt, items) ==
    With(create_object(rt, Tuple), LAMBDA made :
        [rt |-> [made.rt EXCEPT !.heap[made.value].primitive = PrimitiveArray(items)],
         value |-> made.value])

\* Runtime::create_method_object
create_method_object(rt, method) ==
    With(create_object(rt, Method), LAMBDA made :
    With(create_string([made.rt EXCEPT !.heap[made.value] =
                            set_property(@, "__receiver__", method.class)],
                       method.name), LAMBDA name :
        [rt |-> [name.rt EXCEPT !.heap[made.value] =
                     set_property(@, "__name__", name.value)],
         value |-> made.value]))

\* Runtime::resolve_variable, the walk over the frames from the innermost: a local, a
\* property of the first instance met, or a method of the first class met.
NotFound == [kind |-> "None", value |-> NONE, method |-> NoMethod]
\* A walk that consults the instance of every frame that has one, not that of the
\* nearest alone.
RECURSIVE ResolveInEveryFrame(_, _, _, _, _, _)
ResolveInEveryFrame(h, st, name, i, found_instance, found_class) ==
    IF i = 0 THEN NotFound
    ELSE LET frame == st[i]
             try_class == ~found_class /\ frame.class # NONE
             method == IF try_class THEN resolve_own_method(h, frame.class, name)
                       ELSE NoMethod
         IN IF Has(frame.variables, name)
            THEN [NotFound EXCEPT !.kind = "Value", !.value = frame.variables[name]]
            ELSE IF frame.instance # NONE /\ get_property(h[frame.instance], name) # NONE
            THEN [NotFound EXCEPT !.kind = "Value",
                                  !.value = get_property(h[frame.instance], name)]
            ELSE IF IsSome(method)
            THEN [NotFound EXCEPT !.kind = "Method", !.method = method]
            ELSE ResolveInEveryFrame(h, st, name, i - 1, found_instance,
                                     found_class \/ try_class)

RECURSIVE ResolveInFrames(_, _, _, _, _, _)
ResolveInFrames(h, st, name, i, found_instance, found_class) ==
    IF i = 0 THEN NotFound
    ELSE LET frame == st[i]
             try_instance == ~found_instance /\ frame.instance # NONE
             try_class == ~found_class /\ frame.class # NONE
             method == IF try_class THEN resolve_own_method(h, frame.class, name)
                       ELSE NoMethod
         IN IF Has(frame.variables, name)
            THEN [NotFound EXCEPT !.kind = "Value", !.value = frame.variables[name]]
            ELSE IF try_instance /\ get_property(h[frame.instance], name) # NONE
            THEN [NotFound EXCEPT !.kind = "Value",
                                  !.value = get_property(h[frame.instance], name)]
            ELSE IF IsSome(method)
            THEN [NotFound EXCEPT !.kind = "Method", !.method = method]
            ELSE ResolveInFrames(h, st, name, i - 1,
                                 found_instance \/ try_instance,
                                 found_class \/ try_class)

\* Runtime::resolve_variable: value is NONE for None.  A method found is wrapped in a
\* fresh method object.
resolve_variable(rt, st, name) ==
    IF name = "self" THEN [rt |-> rt, value |-> current_instance(st)]
    ELSE With(ResolveInFrames(rt.heap, st, name, Len(st), FALSE, FALSE), LAMBDA found :
            IF found.kind = "Method" THEN create_method_object(rt, found.method)
            ELSE [rt |-> rt, value |-> found.value])

\* A create_class that makes the new class its own superclass.
create_class_under_itself(rt, st, name, superclass) ==
    With(create_object(rt, Class), LAMBDA made :
    With(create_string([made.rt EXCEPT !.heap[made.value].superclass = made.value],
                       name), LAMBDA name_obj :
        [rt |-> [name_obj.rt EXCEPT !.heap[made.value] =
                     set_property(@, "__name__", name_obj.value)],
         stack |-> assign_global(st, name, made.value),
         value |-> made.value]))

\* Runtime::create_class: the class object, its __name__ string, its global binding.
\* Returns the new rt, the new stack and the class id.
create_class(rt, st, name, superclass) ==
    With(create_object(rt, Class), LAMBDA made :
    With(create_string([made.rt EXCEPT !.heap[made.value].superclass = superclass],
                       name), LAMBDA name_obj :
        [rt |-> [name_obj.rt EXCEPT !.heap[made.value] =
                     set_property(@, "__name__", name_obj.value)],
         stack |-> assign_global(st, name, made.value),
         value |-> made.value]))
create_simple_class(rt, st, name) == create_class(rt, st, name, Object)

-----------------------------------------------------------------------------
(* Bootstrap (bootstrap.rs): the heap, intern table and root frame that    *)
(* Runtime::new() leaves.                                                  *)

\* define_system_methods!: instance-receiver methods with a system body, named here
\* "<class>.<method>"; params_by_name gives each method's positional parameters.
SystemMethods(class, class_name, params_by_name) ==
    [name \in DOMAIN params_by_name |->
        NewMethod(name, class, params_by_name[name],
                  SystemBody(class_name \o "." \o name), "Instance")]
NoParams(names) == [name \in names |-> <<>>]
OneParam(names) == [name \in names |-> <<"other">>]

NumberMethods ==
    SystemMethods(Number, "Number",
        NoParams({"init", "__neg__", "round", "ceil", "floor", "to_s"})
        @@ OneParam({"__eq__", "__neq__", "__lt__", "__lte__", "__gt__", "__gte__",
                  "__add__", "__sub__", "__mul__", "__div__", "pow"}))
StringMethods ==
    SystemMethods(String, "String",
        NoParams({"init", "trim", "to_s"}) @@ OneParam({"__eq__", "__neq__", "__add__"}))
ObjectMethods ==
    SystemMethods(Object, "Object",
        NoParams({"__debug__", "to_s"}) @@ OneParam({"__eq__", "__neq__"}))
NilClassMethods == SystemMethods(NilClass, "NilClass", NoParams({"init", "to_s"}))
BoolMethods == SystemMethods(Bool, "Bool", NoParams({"__not__", "init", "to_s"}))
ArrayMethods ==
    SystemMethods(Array, "Array",
        NoParams({"to_s", "init", "pop", "len"})
        @@ OneParam({"__index__", "__add__", "push"}))
ClassMethods == SystemMethods(Class, "Class", NoParams({"to_s"}))
DictionaryMethods ==
    SystemMethods(Dictionary, "Dictionary",
        NoParams({"init", "to_s"}) @@ OneParam({"__index__"})
        @@ [name \in {"__set_index__"} |-> <<"key", "value">>])
TupleMethods == SystemMethods(Tuple, "Tuple", NoParams({"to_s"}))
IOMethods ==
    [name \in {"print", "println", "debug"} |->
        NewMethod(name, IO, <<"args">>, SystemBody("IO." \o name), "Class")]
\* The Closure and Method classes' __call__ (their bootstrap is not in this snapshot).
ClosureMethods ==
    [name \in {"__call__"} |->
        NewMethod(name, Closure, <<"args">>, SystemBody("Closure.__call__"), "Instance")]
MethodMethods ==
    [name \in {"__call__"} |->
        NewMethod(name, Method, <<"args">>, SystemBody("Method.__call__"), "Instance")]

BootstrapClass(name_obj, superclass, methods) ==
    [class |-> Class, superclass |-> superclass,
     properties |-> ("__class__" :> Class) @@ ("__name__" :> name_obj),
     methods |-> methods, primitive |-> NoPrimitive]
BootstrapString(value) ==
    [set_property(new_of_class(String), "__class__", String)
        EXCEPT !.primitive = PrimitiveString(value)]
BootstrapInstance(class, primitive) ==
    [set_property(new_of_class(class), "__class__", class)
        EXCEPT !.primitive = primitive]

BootstrapHeap ==
    << \* Class is made by new_dummy, not create_object: it has no __class__ property
       [BootstrapClass(3, NONE, ClassMethods) EXCEPT !.properties = ("__name__" :> 3)],
       BootstrapClass(4, Object, StringMethods),
       BootstrapString("Class"),
       BootstrapString("String"),
       BootstrapClass(6, NONE, ObjectMethods),
       BootstrapString("Object"),
       BootstrapClass(8, Object, NilClassMethods),
       BootstrapString("NilClass"),
       BootstrapInstance(NilClass, NoPrimitive),
       BootstrapClass(11, Object, ArrayMethods),
       BootstrapString("Array"),
       BootstrapClass(13, Object, TupleMethods),
       BootstrapString("Tuple"),
       BootstrapClass(15, Object, DictionaryMethods),
       BootstrapString("Dictionary"),
       BootstrapClass(17, Object, EmptyMap),
       BootstrapString("DictionaryIter"),
       BootstrapClass(19, Object, BoolMethods),
       BootstrapString("Bool"),
       BootstrapInstance(Bool, PrimitiveBoolean(TRUE)),
       BootstrapInstance(Bool, PrimitiveBoolean(FALSE)),
       BootstrapClass(23, Object, NumberMethods),
       BootstrapString("Number"),
       BootstrapClass(25, Object, EmptyMap),
       BootstrapString("Main"),
       BootstrapClass(27, Object, IOMethods),
       BootstrapString("IO"),
       BootstrapClass(29, Object, ClosureMethods),
       BootstrapString("Closure"),
       BootstrapClass(31, Object, MethodMethods),
       BootstrapString("Method") >>

BootstrapGlobals ==
    [name \in {"Class", "String", "Object", "NilClass", "Array", "Tuple", "Dictionary",
               "DictionaryIter", "Bool", "Number", "Main", "IO", "Closure", "Method"} |->
        CHOOSE id \in DOMAIN BootstrapHeap :
            /\ BootstrapHeap[id].class = Class
            /\ BootstrapHeap[BootstrapHeap[id].properties["__name__"]].primitive.string
                  = name]

BootstrapStrings ==
    [value \in DOMAIN BootstrapGlobals |->
        BootstrapHeap[BootstrapGlobals[value]].properties["__name__"]]

\* bootstrap_classes_and_objects pushes the root frame itself (id 0, stack_id stays 0)
\* and gives it Main as its class and only open class.
RootFrame ==
    [DefaultFrame EXCEPT !.class = Main, !.open_classes = <<Main>>,
                         !.variables = BootstrapGlobals]

\* The heap may grow to this size before the model stops a run.
HeapLimit == Len(BootstrapHeap) + MaxAllocations

-----------------------------------------------------------------------------
(* The machine state as one record, so that the evaluator's steps are      *)
(* functions from state to state.                                          *)

State ==
    [heap |-> heap, strings |-> strings, string_count_marker |-> string_count_marker,
     stack |-> stack, stack_id |-> stack_id, ctrl |-> ctrl, kont |-> kont]
Becomes(s) ==
    /\ heap' = s.heap
    /\ strings' = s.strings
    /\ string_count_marker' = s.string_count_marker
    /\ stack' = s.stack
    /\ stack_id' = s.stack_id
    /\ ctrl' = s.ctrl
    /\ kont' = s.kont
    /\ UNCHANGED <<debug_assertions, executed>>
RuntimeOf(s) ==
    [heap |-> s.heap, strings |-> s.strings,
     string_count_marker |-> s.string_count_marker]
WithRuntime(s, rt) ==
    [s EXCEPT !.heap = rt.heap, !.strings = rt.strings,
              !.string_count_marker = rt.string_count_marker]
Goto(s, c) == [s EXCEPT !.ctrl = c]
Top == kont[Len(kont)]
Caller == SubSeq(kont, 1, Len(kont) - 1)
\* the activation on top of kont returns `result` to its caller
Finish(s, result) == [s EXCEPT !.ctrl = Returning(result), !.kont = Caller]
\* the running activation suspends in `frame` and starts c
Suspend(s, frame, c) == [s EXCEPT !.ctrl = c, !.kont = Append(s.kont, frame)]

\* Runtime::push_stack_frame: the frame takes the current stack_id (which the caller
\* keeps as its local stack_id) and the counter advances.
push_stack_frame(s, frame) ==
    [s EXCEPT !.stack = Append(@, [frame EXCEPT !.id = s.stack_id]),
              !.stack_id = @ + 1]

\* A pop that takes the bottom frame of the stack.
pop_bottom_frame(s, id) == [s EXCEPT !.stack = Tail(@)]

\* Runtime::pop_stack_frame: the top frame goes, whichever it is; in a debug build
\* the evaluator panics when its id is not the caller's stack_id.
PopAssertionHolds(st, id) == st[Len(st)].id = id
pop_stack_frame(s, id) ==
    [s EXCEPT !.stack = SubSeq(@, 1, Len(@) - 1),
              !.ctrl = IF debug_assertions /\ ~PopAssertionHolds(s.stack, id)
                       THEN Panicked("popping a different stack frame than was pushed")
                       ELSE @]

\* Runtime::is_falsy / is_truthy
is_falsy(condition) == condition \in {bool_false, nil}
is_truthy(condition) == ~is_falsy(condition)

\* builtin::op::method_for_binary_op ("" for None)
method_for_binary_op(op) ==
    CASE op = "EqualEqual" -> "__eq__"
      [] op = "NotEqual" -> "__neq__"
      [] op = "Greater" -> "__gt__"
      [] op = "GreaterEqual" -> "__gte__"
      [] op = "Less" -> "__lt__"
      [] op = "LessEqual" -> "__lte__"
      [] op = "Plus" -> "__add__"
      [] op = "Minus" -> "__sub__"
      [] op = "Star" -> "__mul__"
      [] op = "Slash" -> "__div__"
      [] op = "LogicalNot" -> "__not__"
      [] OTHER -> ""
\* a binary expression that evaluates both operands whatever the left one is
evaluates_both_operands(op, lhs) == FALSE
\* Expression::Binary, the two early returns: || with a truthy left operand and &&
\* with a falsy one are the left operand
short_circuits(op, lhs) ==
    \/ op = "LogicalOr" /\ is_truthy(lhs)
    \/ op = "LogicalAnd" /\ is_falsy(lhs)

WithinBounds == stack_id < MaxStackId /\ Len(heap) < HeapLimit
Running(mode) == ctrl.mode = mode /\ WithinBounds
Executing(t) == Running("exec") /\ ctrl.statement.t = t
Evaluating(t) == Running("eval") /\ ctrl.expression.t = t
ReturningTo(k) == Running("return") /\ Len(kont) > 0 /\ Top.k = k
ReturningListTo(k) == Running("return_list") /\ Len(kont) > 0 /\ Top.k = k

-----------------------------------------------------------------------------
(* Continuation frames: one per suspended Rust activation, named after the *)
(* point it waits at, holding the locals it still needs.                   *)

KExecProgram == [k |-> "exec_program", refs |-> <<>>]
KExecExpression == [k |-> "exec_expression", refs |-> <<>>]
KAssignmentValue(assignment) ==
    [k |-> "assignment_value", assignment |-> assignment, refs |-> <<>>]
KAssignmentTarget(assignment, value) ==
    [k |-> "assignment_target", assignment |-> assignment, value |-> value,
     refs |-> Some(<<value.value>>)]
KAssignmentStore(assignment, target) ==
    [k |-> "assignment_store", assignment |-> assignment, target |-> target,
     refs |-> Some(<<target>>)]
KAssignmentIndexTarget(assignment, value) ==
    [k |-> "assignment_index_target", assignment |-> assignment, value |-> value,
     refs |-> Some(<<value.value>>)]
KAssignmentIndex(assignment, value, target) ==
    [k |-> "assignment_index", assignment |-> assignment, value |-> value,
     target |-> target, refs |-> Some(<<value.value, target>>)]
KAssignmentIndexRead(assignment, value, target, index) ==
    [k |-> "assignment_index_read", assignment |-> assignment, value |-> value,
     target |-> target, index |-> index,
     refs |-> Some(<<value.value, target, index>>)]
KAssignmentIndexValue(assignment, target, index) ==
    [k |-> "assignment_index_value", assignment |-> assignment,
     target |-> target, index |-> index, refs |-> <<target, index>>]
KAssignmentIndexStored(assignment) ==
    [k |-> "assignment_index_stored", assignment |-> assignment, refs |-> <<>>]
KClassBody(rest, id) ==
    [k |-> "class_body", rest |-> rest, stack_id |-> id, refs |-> <<>>]
KWhileCondition(while_loop, id) ==
    [k |-> "while_condition", while_loop |-> while_loop, stack_id |-> id, refs |-> <<>>]
KWhileBody(while_loop, id) ==
    [k |-> "while_body", while_loop |-> while_loop, stack_id |-> id, refs |-> <<>>]
KReturn == [k |-> "return_value", refs |-> <<>>]
KForInIterable(for_in) == [k |-> "for_in_iterable", for_in |-> for_in, refs |-> <<>>]
KForInIter(for_in) == [k |-> "for_in_iter", for_in |-> for_in, refs |-> <<>>]
KForInNext(for_in, iterator, next_method, id) ==
    [k |-> "for_in_next", for_in |-> for_in, iterator |-> iterator,
     next_method |-> next_method, stack_id |-> id, refs |-> <<iterator>>]
KForInBody(for_in, iterator, next_method, id) ==
    [k |-> "for_in_body", for_in |-> for_in, iterator |-> iterator,
     next_method |-> next_method, stack_id |-> id, refs |-> <<iterator>>]
KLiteralItems(kind) == [k |-> "literal_items", kind |-> kind, refs |-> <<>>]
KExprList(done, rest) == [k |-> "expr_list", done |-> done, rest |-> rest, refs |-> done]
KAccessTarget(access) == [k |-> "access_target", access |-> access, refs |-> <<>>]
KAccessCall(target, call) ==
    [k |-> "access_call", target |-> target, call |-> call, refs |-> <<target>>]
KIfCondition(if_else) == [k |-> "if_condition", if_else |-> if_else, refs |-> <<>>]
KBinaryLhs(binary) == [k |-> "binary_lhs", binary |-> binary, refs |-> <<>>]
KBinaryRhs(binary, lhs) ==
    [k |-> "binary_rhs", binary |-> binary, lhs |-> lhs, refs |-> <<lhs>>]
KCallTarget(call) == [k |-> "call_target", call |-> call, refs |-> <<>>]
KCallArguments(receiver, method) ==
    [k |-> "call_arguments", receiver |-> receiver, method |-> method,
     refs |-> <<receiver>>]
KCallMethod(id, receiver, method) ==
    [k |-> "call_method", stack_id |-> id, receiver |-> receiver, method |-> method,
     refs |-> <<receiver>>]
KEvalBlock(rest, tail_expression) ==
    [k |-> "eval_block", rest |-> rest, tail_expression |-> tail_expression,
     refs |-> <<>>]

-----------------------------------------------------------------------------
(* Evaluator helpers that run inside one step (interpret.rs).              *)

\* Runtime::eval_block, its start: an empty block yields nil; otherwise the first
\* statement runs, as an expression whose value is kept when it is also the last.
eval_block(s, block) ==
    IF Len(block) = 0 THEN Goto(s, Returning(Ok(nil)))
    ELSE IF Len(block) = 1 /\ block[1].t = "Expression"
    THEN Suspend(s, KEvalBlock(<<>>, TRUE), Eval(block[1].expression))
    ELSE Suspend(s, KEvalBlock(Tail(block), FALSE), Exec(block[1]))

\* Runtime::eval_expr_list, its start
eval_expr_list(s, exprs) ==
    IF Len(exprs) = 0 THEN Goto(s, ReturningList(<<>>))
    ELSE Suspend(s, KExprList(<<>>, Tail(exprs)), Eval(exprs[1]))

\* .__name__().unwrap() on an object without a String __name__
UnwrapNone == Panicked("called Option::unwrap() on a None value")

\* Runtime::call_instance_method: the control state it leads to.  The method is
\* resolved on the receiver's class; a missing or class-receiver method is
\* NoSuchMethod, whose message unwraps the class's name.
call_instance_method(h, receiver, method_name, arguments) ==
    LET class == h[receiver].class
        method == resolve_own_method(h, class, method_name)
    IN IF ~IsSome(method) \/ method.receiver # "Instance"
       THEN IF HasName(h, class) THEN Returning(Err("NoSuchMethod")) ELSE UnwrapNone
       ELSE CallMethod(receiver, method, arguments)

\* Runtime::resolve_callable_method: the __call__ of the object's class
resolve_callable_method(h, object) ==
    resolve_own_method(h, h[object].class, "__call__")

\* Runtime::resolve_class_from_path: the first component is resolved as a variable,
\* each further one as a property that must be a class.
RECURSIVE PathWalk(_, _, _)
PathWalk(h, receiver, components) ==
    IF Len(components) = 0 THEN Ok(receiver)
    ELSE LET child == get_property(h[receiver], components[1]) IN
         IF child = NONE THEN Err("UndefinedProperty")
         ELSE IF ~is_class(h, child) THEN Err("BadPath")
         ELSE PathWalk(h, child, Tail(components))
resolve_class_from_path(rt, st, components) ==
    With(resolve_variable(rt, st, components[1]), LAMBDA start :
        [rt |-> start.rt,
         result |-> IF start.value = NONE THEN Err("NoSuchVariable")
                    ELSE PathWalk(start.rt.heap, start.value, Tail(components))])

\* builtin::op::method_for_assignment_op ("" for None)
method_for_assignment_op(op) ==
    CASE op = "PlusEqual" -> "__add__"
      [] op = "MinusEqual" -> "__sub__"
      [] op = "StarEqual" -> "__mul__"
      [] op = "SlashEqual" -> "__div__"
      [] OTHER -> ""

\* An exec_method_def that gives every method the Instance receiver kind.
exec_method_def_for_instances(h, st, class, method_def) ==
    define_method(h, class, "Instance", method_def.name, method_def.parameters,
                  UserBody(method_def.body))

\* Runtime::exec_method_def: the receiver kind is Class for an explicit class method
\* or inside Main, else Instance; the method goes to `class`'s own table.
exec_method_def(h, st, class, method_def) ==
    define_method(h, class,
                  IF method_def.is_class_method \/ current_class(st) = Main
                  THEN "Class" ELSE "Instance",
                  method_def.name, method_def.parameters, UserBody(method_def.body))

\* The classes of every frame's open_classes, innermost frame first and, within a
\* frame, the last opened first (stack.iter().flat_map(open_classes).rev()).
RECURSIVE Flatten(_, _)
Flatten(st, i) ==
    IF i = 0 THEN <<>> ELSE Flatten(st, i - 1) \o st[i].open_classes
Reverse(seq) == [i \in 1..Len(seq) |-> seq[Len(seq) + 1 - i]]
search_classes(st) == Reverse(Flatten(st, Len(st)))
RECURSIVE FindDefiner(_, _, _)
FindDefiner(h, classes, name) ==
    IF Len(classes) = 0 THEN NONE
    ELSE IF IsSome(resolve_own_method(h, classes[1], name)) THEN classes[1]
    ELSE FindDefiner(h, Tail(classes), name)

\* Runtime::find_closed_vars_in_block / _stmt / _expr: the static scan for the names
\* a closure body refers to.
RECURSIVE find_closed_vars_in_block(_), find_closed_vars_in_stmt(_),
          find_closed_vars_in_expr(_)
find_closed_vars_in_block(block) ==
    IF Len(block) = 0 THEN <<>>
    ELSE find_closed_vars_in_stmt(block[1]) \o find_closed_vars_in_block(Tail(block))
find_closed_vars_in_stmt(stmt) ==
    CASE stmt.t = "ForIn" ->
            find_closed_vars_in_expr(stmt.iterable) \o find_closed_vars_in_block(stmt.body)
      [] stmt.t = "WhileLoop" ->
            find_closed_vars_in_expr(stmt.condition)
            \o find_closed_vars_in_block(stmt.body)
      [] stmt.t = "Expression" -> find_closed_vars_in_expr(stmt.expression)
      [] stmt.t = "Return" ->
            IF stmt.has_retval THEN find_closed_vars_in_expr(stmt.retval) ELSE <<>>
      [] stmt.t = "Assignment" -> find_closed_vars_in_expr(stmt.value)
      [] OTHER -> <<>>
find_closed_vars_in_expr(expr) ==
    CASE expr.t = "Access" -> find_closed_vars_in_expr(expr.target)
      [] expr.t = "Call" -> find_closed_vars_in_expr(expr.target)
      [] expr.t = "Variable" -> <<expr.name>>
      [] expr.t = "IfElse" ->
            find_closed_vars_in_expr(expr.condition)
            \o find_closed_vars_in_block(expr.then_body)
            \o (IF expr.has_else THEN find_closed_vars_in_block(expr.else_body) ELSE <<>>)
      [] expr.t = "Binary" ->
            find_closed_vars_in_expr(expr.lhs) \o find_closed_vars_in_expr(expr.rhs)
      [] expr.t = "Closure" -> find_closed_vars_in_block(expr.body)
      [] OTHER -> <<>>

\* The capture loop of a closure expression: each scanned name that resolves now is
\* stored as a property of the closure object.
RECURSIVE CaptureClosedVars(_, _, _, _)
CaptureClosedVars(rt, st, object, closed_vars) ==
    IF Len(closed_vars) = 0 THEN rt
    ELSE With(resolve_variable(rt, st, closed_vars[1]), LAMBDA var :
            CaptureClosedVars(
                IF var.value = NONE THEN var.rt
                ELSE [var.rt EXCEPT !.heap[object] =
                                        set_property(@, closed_vars[1], var.value)],
                st, object, Tail(closed_vars)))

\* The binding names of a closure, interned one by one
RECURSIVE CreateStrings(_, _, _)
CreateStrings(rt, names, done) ==
    IF Len(names) = 0 THEN [rt |-> rt, values |-> done]
    ELSE With(create_string(rt, names[1]), LAMBDA made :
            CreateStrings(made.rt, Tail(names), Append(done, made.value)))

-----------------------------------------------------------------------------
(* System method bodies (bootstrap.rs bootstrap_stdlib, object.rs).        *)

\* go on to c unless s has panicked
Then(s, c) == IF s.ctrl.mode = "panic" THEN s ELSE Goto(s, c)
Push(s, frame) == [s EXCEPT !.kont = Append(@, frame)]
Replace(s, frame) == [s EXCEPT !.kont = Append(Caller, frame)]
Unmodelled(function) == [mode |-> "unmodelled", function |-> function, refs |-> <<>>]

IsNumber(h, id) == h[id].primitive.kind = "Number"
NumberOf(h, id) == h[id].primitive.number

\* an allocation `made` ([rt, value]) whose object is returned
ReturnMade(s, made) == Goto(WithRuntime(s, made.rt), Returning(Ok(made.value)))
\* a system body that makes a number
ReturnNumber(s, value) == ReturnMade(s, create_number(RuntimeOf(s), value))
\* a system body that makes a string
ReturnString(s, value) == ReturnMade(s, create_string(RuntimeOf(s), value))
\* init of a primitive class: the receiver gets the default payload and is returned
ReturnInitialized(s, this, primitive) ==
    Goto([s EXCEPT !.heap[this].primitive = primitive], Returning(Ok(this)))

\* Number's binary methods on two numbers
NumberBinary(s, function, a, b) ==
    CASE function = "Number.__add__" -> ReturnNumber(s, a + b)
      [] function = "Number.__sub__" -> ReturnNumber(s, a - b)
      [] function = "Number.__mul__" -> ReturnNumber(s, a * b)
      [] function = "Number.__eq__" -> Goto(s, Returning(Ok(create_bool(a = b))))
      [] function = "Number.__neq__" -> Goto(s, Returning(Ok(create_bool(a # b))))
      [] function = "Number.__lt__" -> Goto(s, Returning(Ok(create_bool(a < b))))
      [] function = "Number.__lte__" -> Goto(s, Returning(Ok(create_bool(a <= b))))
      [] function = "Number.__gt__" -> Goto(s, Returning(Ok(create_bool(a > b))))
      [] function = "Number.__gte__" -> Goto(s, Returning(Ok(create_bool(a >= b))))
      [] OTHER -> Goto(s, Unmodelled(function))

NumberBinaryMethods ==
    {"Number.__add__", "Number.__sub__", "Number.__mul__", "Number.__eq__",
     "Number.__neq__", "Number.__lt__", "Number.__lte__", "Number.__gt__",
     "Number.__gte__"}

\* Array's push, pop and len.  The primitive of `this` is unwrapped as an array.
array_push(s, this, element) ==
    IF s.heap[this].primitive.kind # "Array" THEN Goto(s, UnwrapNone)
    ELSE Goto([s EXCEPT !.heap[this].primitive.array = Append(@, element)],
              Returning(Ok(nil)))
\* a pop that takes the first element
array_pop_front(s, this) ==
    LET elements == s.heap[this].primitive.array IN
    IF Len(elements) = 0 THEN Goto(s, Returning(Err("Index")))
    ELSE Goto([s EXCEPT !.heap[this].primitive.array = Tail(elements)],
              Returning(Ok(elements[1])))
array_pop(s, this) ==
    LET elements == s.heap[this].primitive.array IN
    IF s.heap[this].primitive.kind # "Array" THEN Goto(s, UnwrapNone)
    ELSE IF Len(elements) = 0 THEN Goto(s, Returning(Err("Index")))
    ELSE Goto([s EXCEPT !.heap[this].primitive.array =
                            SubSeq(elements, 1, Len(elements) - 1)],
              Returning(Ok(elements[Len(elements)])))
array_len(s, this) ==
    IF s.heap[this].primitive.kind # "Array" THEN Goto(s, UnwrapNone)
    ELSE ReturnNumber(s, Len(s.heap[this].primitive.array))

\* The body of a define_system_methods! method, after its arity check.
system_body(s, function, this, arguments) ==
    LET h == s.heap IN
    CASE function \in NumberBinaryMethods ->
            IF function \in {"Number.__eq__", "Number.__neq__"}
               /\ h[arguments[1]].class # Number
            THEN Goto(s, Returning(Ok(create_bool(function = "Number.__neq__"))))
            ELSE IF ~IsNumber(h, this) \/ ~IsNumber(h, arguments[1])
            THEN Goto(s, UnwrapNone)
            ELSE NumberBinary(s, function, NumberOf(h, this), NumberOf(h, arguments[1]))
      [] function = "Number.__neg__" ->
            IF ~IsNumber(h, this) THEN Goto(s, UnwrapNone)
            ELSE ReturnNumber(s, 0 - NumberOf(h, this))
      [] function = "Number.init" -> ReturnInitialized(s, this, PrimitiveNumber(0))
      [] function = "String.init" -> ReturnInitialized(s, this, PrimitiveString(""))
      [] function = "Bool.init" -> ReturnInitialized(s, this, PrimitiveBoolean(FALSE))
      [] function = "Array.init" -> ReturnInitialized(s, this, PrimitiveArray(<<>>))
      [] function = "String.to_s" -> Goto(s, Returning(Ok(this)))
      [] function = "Object.__eq__" ->
            Goto(s, Returning(Ok(create_bool(this = arguments[1]))))
      [] function = "Object.__neq__" ->
            Goto(s, Returning(Ok(create_bool(this # arguments[1]))))
      [] function = "Object.to_s" -> ReturnString(s, "Object()")
      [] function = "NilClass.init" ->
            IF HasName(h, h[this].class)
            THEN Goto(s, Returning(Err("IllegalConstructorCall")))
            ELSE Goto(s, UnwrapNone)
      [] function = "NilClass.to_s" -> ReturnString(s, "nil")
      [] function = "Bool.__not__" ->
            Goto(s, Returning(Ok(IF this = bool_false THEN bool_true ELSE bool_false)))
      [] function = "Bool.to_s" ->
            IF h[this].primitive.kind # "Boolean" THEN Goto(s, UnwrapNone)
            ELSE ReturnString(s, IF h[this].primitive.boolean THEN "true" ELSE "false")
      [] function = "Class.to_s" ->
            IF HasName(h, this) THEN ReturnString(s, NameOf(h, this))
            ELSE Goto(s, UnwrapNone)
      [] function = "Array.push" -> array_push(s, this, arguments[1])
      [] function = "Array.pop" -> array_pop(s, this)
      [] function = "Array.len" -> array_len(s, this)
      [] OTHER -> Goto(s, Unmodelled(function))

\* Runtime::call_closure: the closure object's own __call__, called on the closure
call_closure(s, closure, arguments) ==
    LET method == resolve_own_method(s.heap, closure, "__call__") IN
    IF ~IsSome(method) THEN Goto(s, Panicked("closure object has no __call__ method"))
    ELSE Goto(s, CallMethod(closure, method, arguments))

\* The __call__ of a method object: the method named by its __name__, looked up on
\* its __receiver__ and called on it.
call_method_object(s, this, arguments) ==
    LET h == s.heap
        receiver == get_property(h[this], "__receiver__")
        method == IF receiver = NONE \/ ~HasName(h, this) THEN NoMethod
                  ELSE resolve_own_method(h, receiver, NameOf(h, this))
    IN IF ~IsSome(method) THEN Goto(s, Returning(Err("NoSuchMethod")))
       ELSE Goto(s, CallMethod(receiver, method, arguments))

\* MethodBody::System(function) applied by call_method: function(self, receiver,
\* method_name, arguments).
system_function(s, method, this, arguments) ==
    LET function == method.body.function IN
    CASE function = "synthesized init" ->
            LET made == create_object(RuntimeOf(s), this) IN
            Goto(WithRuntime(s, made.rt), Returning(Ok(made.value)))
      [] function = "Closure.__call__" -> call_closure(s, this, arguments)
      [] function = "Method.__call__" -> call_method_object(s, this, arguments)
      [] function \in {"IO.print", "IO.println", "IO.debug"} ->
            Goto(s, Unmodelled(function))
      [] OTHER ->
            IF Len(arguments) # Len(method.params)
            THEN IF HasName(s.heap, s.heap[this].class)
                 THEN Goto(s, Returning(ArityMismatch(Len(method.params), Len(arguments))))
                 ELSE Goto(s, UnwrapNone)
            ELSE system_body(s, function, this, arguments)

-----------------------------------------------------------------------------
(* Statements: Runtime::exec.                                              *)

\* the `?` operator in the activation on top of kont
Propagate == Finish(State, ctrl.result)
\* the state once the activation on top of kont has been resumed
Resumed == [State EXCEPT !.kont = Caller]

\* Statement::Expression: the value is dropped
ExecExpression ==
    /\ Executing("Expression")
    /\ Becomes(Suspend(State, KExecExpression, Eval(ctrl.statement.expression)))
ExecExpressionDone ==
    /\ ReturningTo("exec_expression")
    /\ Becomes(IF IsErr(ctrl.result) THEN Propagate ELSE Finish(State, Ok(NONE)))

\* Statement::MethodDefinition: defined on the current class
ExecMethodDefinition ==
    /\ Executing("MethodDefinition")
    /\ LET made == exec_method_def(heap, stack, current_class(stack), ctrl.statement)
       IN Becomes(Goto([State EXCEPT !.heap = made.heap], Returning(made.result)))

\* the statements of a class body, one after the other inside the class's frame; the
\* frame is popped after the last one
class_body(s, rest, id) ==
    IF Len(rest) = 0 THEN Then(pop_stack_frame(s, id), Returning(Ok(NONE)))
    ELSE Suspend(s, KClassBody(Tail(rest), id), Exec(rest[1]))

\* a class definition that makes a new class whatever the name resolves to
ExecClassDefinitionAnew ==
    /\ Executing("ClassDefinition")
    /\ LET made == create_simple_class(RuntimeOf(State), stack, ctrl.statement.name)
           pushed == push_stack_frame(
                        [WithRuntime(State, made.rt) EXCEPT !.stack = made.stack],
                        NewFrame(NONE, made.value, EmptyMap))
       IN Becomes(class_body(pushed, ctrl.statement.body, stack_id))

\* Statement::ClassDefinition: the class of that name is reopened or created, a frame
\* with it as current class is pushed, the body runs.
ExecClassDefinition ==
    /\ Executing("ClassDefinition")
    /\ LET name == ctrl.statement.name
           found == resolve_variable(RuntimeOf(State), stack, name)
           reopened == found.value # NONE /\ is_class(found.rt.heap, found.value)
           made == IF reopened
                   THEN [rt |-> found.rt, stack |-> stack, value |-> found.value]
                   ELSE create_simple_class(found.rt, stack, name)
           pushed == push_stack_frame(
                        [WithRuntime(State, made.rt) EXCEPT !.stack = made.stack],
                        NewFrame(NONE, made.value, EmptyMap))
       IN Becomes(class_body(pushed, ctrl.statement.body, stack_id))
\* a body statement returned: an error leaves exec at once (try_for_each(..)?)
ExecClassBodyDone ==
    /\ ReturningTo("class_body")
    /\ Becomes(IF IsErr(ctrl.result) THEN Propagate
               ELSE class_body(Resumed, Top.rest, Top.stack_id))

\* Statement::WhileLoop: a frame is pushed, then the condition is evaluated
ExecWhileLoop ==
    /\ Executing("WhileLoop")
    /\ Becomes(Suspend(push_stack_frame(State, DefaultFrame),
                       KWhileCondition(ctrl.statement, stack_id),
                       Eval(ctrl.statement.condition)))
\* the condition returned: an error leaves exec at once (eval(condition)?); a falsy
\* value ends the loop, which pops the frame; else the body runs
ExecWhileCondition ==
    /\ ReturningTo("while_condition")
    /\ Becomes(IF IsErr(ctrl.result) THEN Propagate
               ELSE IF is_falsy(ctrl.result.value)
               THEN Then(pop_stack_frame(Resumed, Top.stack_id), Returning(Ok(NONE)))
               ELSE eval_block(Replace(State, KWhileBody(Top.while_loop, Top.stack_id)),
                               Top.while_loop.body))
\* a loop that hands the Break of its body on to its caller
ExecWhileBodyPassingBreak ==
    /\ ReturningTo("while_body")
    /\ Becomes(IF IsErr(ctrl.result) /\ ctrl.result # Continue
               THEN Then(pop_stack_frame(Resumed, Top.stack_id), Returning(ctrl.result))
               ELSE Goto(Replace(State, KWhileCondition(Top.while_loop, Top.stack_id)),
                         Eval(Top.while_loop.condition)))
\* the body returned (handle_loop_control_flow!): Break ends the loop with Ok, any other
\* error ends it with that error, Continue and Ok go back to the condition
ExecWhileBody ==
    /\ ReturningTo("while_body")
    /\ Becomes(IF ctrl.result = Break
               THEN Then(pop_stack_frame(Resumed, Top.stack_id), Returning(Ok(NONE)))
               ELSE IF IsErr(ctrl.result) /\ ctrl.result # Continue
               THEN Then(pop_stack_frame(Resumed, Top.stack_id), Returning(ctrl.result))
               ELSE Goto(Replace(State, KWhileCondition(Top.while_loop, Top.stack_id)),
                         Eval(Top.while_loop.condition)))

\* Statement::Break / Statement::Continue
ExecBreak ==
    /\ Executing("Break")
    /\ Becomes(Goto(State, Returning(Break)))
ExecContinue ==
    /\ Executing("Continue")
    /\ Becomes(Goto(State, Returning(Continue)))

\* Statement::Use: the class the path names is added to the top frame's open classes
ExecUse ==
    /\ Executing("Use")
    /\ LET found == resolve_class_from_path(RuntimeOf(State), stack,
                                            ctrl.statement.path)
           s == WithRuntime(State, found.rt)
       IN Becomes(IF IsErr(found.result) THEN Goto(s, Returning(found.result))
                  ELSE Goto([s EXCEPT !.stack[Len(stack)].open_classes =
                                            Append(@, found.result.value)],
                            Returning(Ok(NONE))))

\* Statement::Return: the value, if any, is evaluated, then ReturnFromMethod is raised
ExecReturn ==
    /\ Executing("Return")
    /\ Becomes(IF ctrl.statement.has_retval
               THEN Suspend(State, KReturn, Eval(ctrl.statement.retval))
               ELSE Goto(State, Returning(ReturnFromMethod(NONE))))
ExecReturnValue ==
    /\ ReturningTo("return_value")
    /\ Becomes(IF IsErr(ctrl.result) THEN Propagate
               ELSE Finish(State, ReturnFromMethod(ctrl.result.value)))

-----------------------------------------------------------------------------
(* Runtime::exec_for_in.                                                   *)

ExecForIn ==
    /\ Executing("ForIn")
    /\ Becomes(Suspend(State, KForInIterable(ctrl.statement),
                       Eval(ctrl.statement.iterable)))
\* the iterable returned: its class's iter method is called on it
ExecForInIterable ==
    /\ ReturningTo("for_in_iterable")
    /\ LET iterable == ctrl.result.value
           iter_method == resolve_own_method(heap, heap[iterable].class, "iter")
       IN Becomes(IF IsErr(ctrl.result) THEN Propagate
                  ELSE IF ~IsSome(iter_method) THEN Finish(State, Err("BadIterator"))
                  ELSE Goto(Replace(State, KForInIter(Top.for_in)),
                            CallMethod(iterable, iter_method, <<>>)))
\* iter returned: the iterator's class must have next; the loop's frame is pushed and
\* next is called for the first time
ExecForInIter ==
    /\ ReturningTo("for_in_iter")
    /\ LET iterator == ctrl.result.value
           next_method == resolve_own_method(heap, heap[iterator].class, "next")
       IN Becomes(IF IsErr(ctrl.result) THEN Propagate
                  ELSE IF ~IsSome(next_method) THEN Finish(State, Err("BadIterator"))
                  ELSE Goto(Replace(push_stack_frame(State, DefaultFrame),
                                    KForInNext(Top.for_in, iterator, next_method, stack_id)),
                            CallMethod(iterator, next_method, <<>>)))

\* the item's parts bound to the names, in order, in the top frame
RECURSIVE DefineAll(_, _, _)
DefineAll(st, names, values) ==
    IF Len(names) = 0 THEN st
    ELSE DefineAll(define_variable(st, names[1], values[1]), Tail(names), Tail(values))

\* a loop that ends with Ok whatever next returned
ExecForInNextEndingLoop ==
    /\ ReturningTo("for_in_next")
    /\ Becomes(Then(pop_stack_frame(Resumed, Top.stack_id), Returning(Ok(NONE))))
\* next returned: an error or nil ends the loop, which pops the frame; else the item
\* is bound (an item that cannot be bound leaves exec_for_in at once) and the body runs
ExecForInNext ==
    /\ ReturningTo("for_in_next")
    /\ LET item == ctrl.result.value
           binding_names == Top.for_in.binding
           body == Replace(State, KForInBody(Top.for_in, Top.iterator, Top.next_method,
                                             Top.stack_id))
       IN Becomes(
            IF IsErr(ctrl.result)
            THEN Then(pop_stack_frame(Resumed, Top.stack_id), Returning(ctrl.result))
            ELSE IF item = nil
            THEN Then(pop_stack_frame(Resumed, Top.stack_id), Returning(Ok(NONE)))
            ELSE IF Len(binding_names) = 1
            THEN eval_block([body EXCEPT !.stack =
                                define_variable(@, binding_names[1], item)],
                            Top.for_in.body)
            ELSE IF heap[item].class = Tuple
            THEN IF heap[item].primitive.kind # "Array"
                 THEN Goto(State, Panicked("tuple without array"))
                 ELSE IF Len(heap[item].primitive.array) # Len(binding_names)
                 THEN Finish(State, Err("BadIterator"))
                 ELSE eval_block([body EXCEPT !.stack =
                                     DefineAll(@, binding_names,
                                               heap[item].primitive.array)],
                                 Top.for_in.body)
            ELSE Finish(State, Err("BadIterator")))
\* the body returned (handle_loop_control_flow!)
ExecForInBody ==
    /\ ReturningTo("for_in_body")
    /\ Becomes(IF ctrl.result = Break
               THEN Then(pop_stack_frame(Resumed, Top.stack_id), Returning(Ok(NONE)))
               ELSE IF IsErr(ctrl.result) /\ ctrl.result # Continue
               THEN Then(pop_stack_frame(Resumed, Top.stack_id), Returning(ctrl.result))
               ELSE Goto(Replace(State, KForInNext(Top.for_in, Top.iterator,
                                                   Top.next_method, Top.stack_id)),
                         CallMethod(Top.iterator, Top.next_method, <<>>)))

-----------------------------------------------------------------------------
(* Runtime::exec_assignment.                                               *)

ExecAssignment ==
    /\ Executing("Assignment")
    /\ Becomes(Suspend(State, KAssignmentValue(ctrl.statement),
                       Eval(ctrl.statement.value)))

\* the value returned, as a Result that is only unwrapped where it is used
ExecAssignmentValue ==
    /\ ReturningTo("assignment_value")
    /\ LET assignment == Top.assignment
           target == assignment.target
           value == ctrl.result
           method_name == method_for_assignment_op(assignment.op)
           lhs == resolve_variable(RuntimeOf(State), stack, target.name)
           s == WithRuntime(State, lhs.rt)
       IN Becomes(
            IF target.t = "Access"
            THEN Goto(Replace(State, KAssignmentTarget(assignment, value)),
                      Eval(target.target))
            ELSE IF target.t = "Index"
            THEN Goto(Replace(State, KAssignmentIndexTarget(assignment, value)),
                      Eval(target.target))
            ELSE IF method_name = ""
            THEN IF IsErr(value) THEN Propagate
                 ELSE Finish([State EXCEPT !.stack =
                                    assign_variable(@, target.name, value.value)],
                             Ok(NONE))
            ELSE IF lhs.value = NONE THEN Finish(s, Err("NoSuchVariable"))
            ELSE IF IsErr(value) THEN Finish(s, value)
            ELSE Goto(Replace(s, KAssignmentStore(assignment, NONE)),
                      call_instance_method(s.heap, lhs.value, method_name,
                                           <<value.value>>)))

\* the target of an Access assignment returned
ExecAssignmentTarget ==
    /\ ReturningTo("assignment_target")
    /\ LET assignment == Top.assignment
           value == Top.value
           target == ctrl.result.value
           member == assignment.target.member
           method_name == method_for_assignment_op(assignment.op)
           lhs == get_property(heap[target], member.name)
       IN Becomes(
            IF IsErr(ctrl.result) THEN Propagate
            ELSE IF member.t # "Variable" THEN Finish(State, Err("IllegalAssignmentTarget"))
            ELSE IF method_name = ""
            THEN IF IsErr(value) THEN Finish(State, value)
                 ELSE Finish([State EXCEPT !.heap[target] =
                                    set_property(@, member.name, value.value)],
                             Ok(NONE))
            ELSE IF lhs = NONE THEN Finish(State, Err("NoSuchProperty"))
            ELSE IF IsErr(value) THEN Finish(State, value)
            ELSE Goto(Replace(State, KAssignmentStore(assignment, target)),
                      call_instance_method(heap, lhs, method_name, <<value.value>>)))

\* a compound assignment that drops the value of the operator method
ExecAssignmentDiscard ==
    /\ ReturningTo("assignment_store")
    /\ Becomes(IF IsErr(ctrl.result) THEN Propagate ELSE Finish(State, Ok(NONE)))

\* the operator method of a compound assignment returned: its value is stored
ExecAssignmentStore ==
    /\ ReturningTo("assignment_store")
    /\ LET target == Top.assignment.target
           value == ctrl.result.value
       IN Becomes(
            IF IsErr(ctrl.result) THEN Propagate
            ELSE IF Top.target = NONE
            THEN Finish([State EXCEPT !.stack = assign_variable(@, target.name, value)],
                        Ok(NONE))
            ELSE Finish([State EXCEPT !.heap[Top.target] =
                                set_property(@, target.member.name, value)],
                        Ok(NONE)))

\* the target of an Index assignment returned: its index is evaluated
ExecAssignmentIndexTarget ==
    /\ ReturningTo("assignment_index_target")
    /\ Becomes(
         IF IsErr(ctrl.result) THEN Propagate
         ELSE Goto(Replace(State, KAssignmentIndex(Top.assignment, Top.value,
                                                   ctrl.result.value)),
                   Eval(Top.assignment.target.index)))

\* the index returned: a compound assignment reads the element with __index__,
\* a plain one stores the value with __set_index__
ExecAssignmentIndex ==
    /\ ReturningTo("assignment_index")
    /\ LET assignment == Top.assignment
           value == Top.value
           target == Top.target
           index == ctrl.result.value
       IN Becomes(
            IF IsErr(ctrl.result) THEN Propagate
            ELSE IF method_for_assignment_op(assignment.op) # ""
            THEN Goto(Replace(State, KAssignmentIndexRead(assignment, value,
                                                          target, index)),
                      call_instance_method(heap, target, "__index__", <<index>>))
            ELSE IF IsErr(value) THEN Finish(State, value)
            ELSE Goto(Replace(State, KAssignmentIndexStored(assignment)),
                      call_instance_method(heap, target, "__set_index__",
                                           <<index, value.value>>)))

\* __index__ returned the element: the operator method is called on it
ExecAssignmentIndexRead ==
    /\ ReturningTo("assignment_index_read")
    /\ LET assignment == Top.assignment
           value == Top.value
           lhs == ctrl.result.value
       IN Becomes(
            IF IsErr(ctrl.result) THEN Propagate
            ELSE IF IsErr(value) THEN Finish(State, value)
            ELSE Goto(Replace(State, KAssignmentIndexValue(assignment, Top.target,
                                                           Top.index)),
                      call_instance_method(heap, lhs,
                                           method_for_assignment_op(assignment.op),
                                           <<value.value>>)))

\* the operator method returned: its value is stored with __set_index__
ExecAssignmentIndexValue ==
    /\ ReturningTo("assignment_index_value")
    /\ Becomes(
         IF IsErr(ctrl.result) THEN Propagate
         ELSE Goto(Replace(State, KAssignmentIndexStored(Top.assignment)),
                   call_instance_method(heap, Top.target, "__set_index__",
                                        <<Top.index, ctrl.result.value>>)))

\* __set_index__ returned
ExecAssignmentIndexStored ==
    /\ ReturningTo("assignment_index_stored")
    /\ Becomes(IF IsErr(ctrl.result) THEN Propagate ELSE Finish(State, Ok(NONE)))

-----------------------------------------------------------------------------
(* Expressions: Runtime::eval.                                             *)

\* Expression::Variable
EvalVariable ==
    /\ Evaluating("Variable")
    /\ LET found == resolve_variable(RuntimeOf(State), stack, ctrl.expression.name)
       IN Becomes(Goto(WithRuntime(State, found.rt),
                       Returning(IF found.value = NONE THEN Err("NoSuchVariable")
                                 ELSE Ok(found.value))))

\* Runtime::eval_literal
EvalLiteral ==
    /\ Evaluating("Literal")
    /\ LET literal == ctrl.expression
           number == create_number(RuntimeOf(State), literal.number)
           string == create_string(RuntimeOf(State), literal.string)
       IN Becomes(
            CASE literal.kind = "Number" ->
                    Goto(WithRuntime(State, number.rt), Returning(Ok(number.value)))
              [] literal.kind = "Boolean" ->
                    Goto(State, Returning(Ok(create_bool(literal.boolean))))
              [] literal.kind = "Nil" -> Goto(State, Returning(Ok(nil)))
              [] literal.kind = "StringLit" ->
                    Goto(WithRuntime(State, string.rt), Returning(Ok(string.value)))
              [] literal.kind = "Tuple" ->
                    eval_expr_list(Push(State, KLiteralItems("Tuple")), literal.items))
\* the items of a tuple literal returned
EvalLiteralItems ==
    /\ ReturningListTo("literal_items")
    /\ LET made == create_tuple(RuntimeOf(State), ctrl.values)
       IN Becomes(Finish(WithRuntime(State, made.rt), Ok(made.value)))

\* Runtime::eval_expr_list: one expression returned; the first error ends the list
EvalExprListItem ==
    /\ ReturningTo("expr_list")
    /\ LET done == Append(Top.done, ctrl.result.value)
       IN Becomes(IF IsErr(ctrl.result) THEN Propagate
                  ELSE IF Len(Top.rest) = 0
                  THEN [State EXCEPT !.ctrl = ReturningList(done), !.kont = Caller]
                  ELSE Goto(Replace(State, KExprList(done, Tail(Top.rest))),
                            Eval(Top.rest[1])))
\* eval_expr_list(..)? failed in an activation that was waiting for the list
EvalExprListFailed ==
    /\ Running("return")
    /\ Len(kont) > 0
    /\ Top.k \in {"literal_items", "access_call", "call_arguments"}
    /\ Becomes(Propagate)

\* Runtime::eval_access
EvalAccess ==
    /\ Evaluating("Access")
    /\ Becomes(Suspend(State, KAccessTarget(ctrl.expression), Eval(ctrl.expression.target)))
\* the target returned: a Variable member reads the property, a Call member evaluates
\* its arguments
EvalAccessTarget ==
    /\ ReturningTo("access_target")
    /\ LET target == ctrl.result.value
           member == Top.access.member
           value == get_property(heap[target], member.name)
       IN Becomes(
            IF IsErr(ctrl.result) THEN Propagate
            ELSE IF member.t = "Variable"
            THEN Finish(State, IF value = NONE THEN Err("UndefinedProperty") ELSE Ok(value))
            ELSE IF member.t = "Call"
            THEN eval_expr_list(Replace(State, KAccessCall(target, member)),
                                member.arguments)
            ELSE Goto(State, Panicked("not implemented")))
\* the arguments returned: the member call's target must be a plain name, which is
\* called as an instance method of the target
EvalAccessCall ==
    /\ ReturningListTo("access_call")
    /\ Becomes(IF Top.call.target.t # "Variable" THEN Finish(State, Err("NotCallable"))
               ELSE Goto(Resumed,
                         call_instance_method(heap, Top.target, Top.call.target.name,
                                              ctrl.values)))

\* Expression::IfElse
EvalIfElse ==
    /\ Evaluating("IfElse")
    /\ Becomes(Suspend(State, KIfCondition(ctrl.expression),
                       Eval(ctrl.expression.condition)))
EvalIfCondition ==
    /\ ReturningTo("if_condition")
    /\ Becomes(IF IsErr(ctrl.result) THEN Propagate
               ELSE IF is_falsy(ctrl.result.value)
               THEN IF Top.if_else.has_else THEN eval_block(Resumed, Top.if_else.else_body)
                    ELSE Finish(State, Ok(nil))
               ELSE eval_block(Resumed, Top.if_else.then_body))

\* Expression::Binary: the left operand first
EvalBinary ==
    /\ Evaluating("Binary")
    /\ Becomes(Suspend(State, KBinaryLhs(ctrl.expression), Eval(ctrl.expression.lhs)))
\* the left operand returned: a short-circuiting operator stops with it, any other
\* case goes on with the right operand
EvalBinaryLhs ==
    /\ ReturningTo("binary_lhs")
    /\ Becomes(IF IsErr(ctrl.result) THEN Propagate
               ELSE IF short_circuits(Top.binary.op, ctrl.result.value)
               THEN Finish(State, Ok(ctrl.result.value))
               ELSE Suspend(Resumed, KBinaryRhs(Top.binary, ctrl.result.value),
                            Eval(Top.binary.rhs)))
\* the right operand returned: it is the value of || and &&; any other operator is
\* its method called on the left operand with the right one
EvalBinaryRhs ==
    /\ ReturningTo("binary_rhs")
    /\ Becomes(IF IsErr(ctrl.result) THEN Propagate
               ELSE IF Top.binary.op \in {"LogicalOr", "LogicalAnd"}
               THEN Finish(State, Ok(ctrl.result.value))
               ELSE IF method_for_binary_op(Top.binary.op) = ""
               THEN Goto(State, UnwrapNone)
               ELSE Goto(Resumed,
                         call_instance_method(heap, Top.lhs,
                                              method_for_binary_op(Top.binary.op),
                                              <<ctrl.result.value>>)))

\* Expression::Path
EvalPath ==
    /\ Evaluating("Path")
    /\ LET found == resolve_class_from_path(RuntimeOf(State), stack,
                                            ctrl.expression.components)
       IN Becomes(Goto(WithRuntime(State, found.rt), Returning(found.result)))

\* Expression::Closure: an object of class Closure with the binding names as a tuple
\* in __binding__, the scanned names that resolve now as properties, and the body as
\* its own __call__ method.
EvalClosure ==
    /\ Evaluating("Closure")
    /\ LET closure == ctrl.expression
           object == create_object(RuntimeOf(State), Closure)
           binding_variables == CreateStrings(object.rt, closure.binding, <<>>)
           binding == create_tuple(binding_variables.rt, binding_variables.values)
           captured == CaptureClosedVars(binding.rt, stack, object.value,
                                         find_closed_vars_in_block(closure.body))
           bound == [captured EXCEPT !.heap[object.value] =
                        set_property(@, "__binding__", binding.value)]
           defined == define_method(bound.heap, object.value, "Instance", "__call__",
                                    closure.binding, UserBody(closure.body))
       IN Becomes(Goto(WithRuntime(State, [bound EXCEPT !.heap = defined.heap]),
                       Returning(IF IsErr(defined.result) THEN defined.result
                                 ELSE Ok(object.value))))

\* Runtime::eval_block: a statement of the block returned.  The value of the block is
\* that of its last statement when that is an expression, else nil.
EvalBlockStatement ==
    /\ ReturningTo("eval_block")
    /\ LET rest == Top.rest
       IN Becomes(
            IF IsErr(ctrl.result) THEN Propagate
            ELSE IF Top.tail_expression THEN Finish(State, Ok(ctrl.result.value))
            ELSE IF Len(rest) = 0 THEN Finish(State, Ok(nil))
            ELSE IF Len(rest) = 1 /\ rest[1].t = "Expression"
            THEN Goto(Replace(State, KEvalBlock(<<>>, TRUE)), Eval(rest[1].expression))
            ELSE Goto(Replace(State, KEvalBlock(Tail(rest), FALSE)), Exec(rest[1])))

-----------------------------------------------------------------------------
(* Calls: Runtime::eval_call_expr and Runtime::call_method.                *)

\* a construction: a fresh object of the class and the class's init method
Construct(rt, class) ==
    LET made == create_object(rt, class) IN
    [rt |-> made.rt, result |-> Ok(made.value), method |-> get_init_method(rt.heap, class)]
Resolved(rt, receiver, method) == [rt |-> rt, result |-> Ok(receiver), method |-> method]
Unresolved(rt, error) == [rt |-> rt, result |-> Err(error), method |-> NoMethod]

\* eval_call_expr, target a plain name: a variable holding a class constructs; any
\* other variable is called through its class's __call__; else a method of the current
\* instance's class, on that instance; else a method of the nearest open class, on
\* that class.
resolve_call_by_name(rt, st, method_name) ==
    LET found == resolve_variable(rt, st, method_name)
        h == found.rt.heap
        variable == found.value
        callable == resolve_callable_method(h, variable)
        instance == current_instance(st)
        instance_method ==
            IF instance = NONE THEN NoMethod
            ELSE resolve_own_method(h, h[instance].class, method_name)
        found_class == FindDefiner(h, search_classes(st), method_name)
    IN IF variable # NONE
       THEN IF is_class(h, variable) THEN Construct(found.rt, variable)
            ELSE IF IsSome(callable) THEN Resolved(found.rt, variable, callable)
            ELSE Unresolved(found.rt, "ObjectNotCallable")
       ELSE IF IsSome(instance_method) THEN Resolved(found.rt, instance, instance_method)
       ELSE IF found_class # NONE
       THEN Resolved(found.rt, found_class,
                     resolve_own_method(h, found_class, method_name))
       ELSE Unresolved(found.rt, "NoSuchMethod")

\* eval_call_expr, target a path: the last component names a class held as a property
\* of the class the rest names, which constructs, or a method of that class, called
\* on it.
resolve_call_by_path(rt, st, components) ==
    LET method_name == components[Len(components)]
        found == resolve_class_from_path(rt, st, SubSeq(components, 1, Len(components) - 1))
        h == found.rt.heap
        class_from_path == found.result.value
        class_prop == get_property(h[class_from_path], method_name)
        method == resolve_own_method(h, class_from_path, method_name)
    IN IF IsErr(found.result) THEN Unresolved(found.rt, found.result.error)
       ELSE IF class_prop # NONE /\ is_class(h, class_prop)
       THEN Construct(found.rt, class_prop)
       ELSE IF IsSome(method) THEN Resolved(found.rt, class_from_path, method)
       ELSE Unresolved(found.rt, "NoSuchMethod")

\* with receiver and method settled, the arguments are evaluated
call_arguments(s, resolved, call) ==
    IF IsErr(resolved.result) THEN Goto(s, Returning(resolved.result))
    ELSE eval_expr_list(Push(s, KCallArguments(resolved.result.value, resolved.method)),
                        call.arguments)

EvalCall ==
    /\ Evaluating("Call")
    /\ LET call == ctrl.expression
           target == call.target
           by_name == resolve_call_by_name(RuntimeOf(State), stack, target.name)
           by_path == resolve_call_by_path(RuntimeOf(State), stack, target.components)
       IN Becomes(
            CASE target.t = "Variable" ->
                    call_arguments(WithRuntime(State, by_name.rt), by_name, call)
              [] target.t = "Path" ->
                    call_arguments(WithRuntime(State, by_path.rt), by_path, call)
              [] OTHER -> Suspend(State, KCallTarget(call), Eval(target)))
\* the target expression returned: it is called through its class's __call__
EvalCallTarget ==
    /\ ReturningTo("call_target")
    /\ LET callable == ctrl.result.value
           method == resolve_callable_method(heap, callable)
       IN Becomes(IF IsErr(ctrl.result) THEN Propagate
                  ELSE IF ~IsSome(method) THEN Finish(State, Err("ObjectNotCallable"))
                  ELSE call_arguments(Resumed, Resolved(RuntimeOf(State), callable, method),
                                      Top.call))
\* the arguments returned: call_method(receiver, method, arguments)
EvalCallArguments ==
    /\ ReturningListTo("call_arguments")
    /\ Becomes(Goto(Resumed, CallMethod(Top.receiver, Top.method, ctrl.values)))

\* the frame variables of a call: each parameter name with its argument (a repeated
\* name keeps the last)
ParamVariables(params, arguments) ==
    [name \in Range(params) |->
        arguments[CHOOSE i \in DOMAIN params :
                     params[i] = name /\ \A j \in DOMAIN params : params[j] = name => j <= i]]

\* the receiver kind call_method's debug assertion expects of the method
ReceiverKind(h, receiver) == IF is_class(h, receiver) THEN "Class" ELSE "Instance"

\* Runtime::call_method up to the body: the debug assertion on the receiver kind, the
\* upgrade of the method's owner, then for a user body the arity check, the frame and
\* the start of the body; for a system body the function itself.
call_method(s, receiver, method, arguments) ==
    IF debug_assertions /\ ReceiverKind(s.heap, receiver) # method.receiver
    THEN Goto(s, Panicked("method receiver type mismatch"))
    ELSE IF ~Upgrade(s.heap, method.class)
    THEN Goto(s, Panicked("method's class was dropped"))
    ELSE IF method.body.kind = "System"
    THEN system_function(s, method, receiver, arguments)
    ELSE IF Len(arguments) # Len(method.params)
    THEN IF HasName(s.heap, method.class)
         THEN Goto(s, Returning(ArityMismatch(Len(method.params), Len(arguments))))
         ELSE Goto(s, UnwrapNone)
    ELSE eval_block(Push(push_stack_frame(s, NewFrame(receiver, NONE,
                                             ParamVariables(method.params, arguments))),
                         KCallMethod(s.stack_id, receiver, method)),
                    method.body.block)

CallMethodEnter ==
    /\ Running("call_method")
    /\ Becomes(call_method(State, ctrl.receiver, ctrl.method, ctrl.arguments))

\* A call_method whose methods yield nil whenever their body ends without an error.
method_result_nil(result) ==
    IF IsErr(result) /\ result.error # "ReturnFromMethod" THEN result
    ELSE Ok(IF IsErr(result) /\ result.value # NONE THEN result.value ELSE nil)

\* what call_method makes of its body's result
init_result(result, receiver) ==
    IF IsOk(result) \/ result = ReturnFromMethod(NONE) THEN Ok(receiver)
    ELSE IF result.error = "ReturnFromMethod" THEN Err("ReturnFromInitializer")
    ELSE result
method_result(result) ==
    IF IsErr(result) /\ result.error = "ReturnFromMethod"
    THEN Ok(IF result.value = NONE THEN nil ELSE result.value)
    ELSE result

\* the body returned: the frame is popped, then the result is mapped
CallMethodReturn ==
    /\ ReturningTo("call_method")
    /\ Becomes(Then(pop_stack_frame(Resumed, Top.stack_id),
                    Returning(IF Top.method.name = "init"
                              THEN init_result(ctrl.result, Top.receiver)
                              ELSE method_result(ctrl.result))))

-----------------------------------------------------------------------------
(* The programs the host may run: any sequence of at most MaxStatements of *)
(* these top-level statements.                                             *)

self == Variable("self")
New(class_name) == Call(Variable(class_name), <<>>)
Send(target, method_name, arguments) ==
    Access(target, Call(Variable(method_name), arguments))
Define(name, parameters, body) == MethodDefinition(FALSE, name, parameters, body)
Set(name, value) == Assignment(Variable(name), "", value)

\* class A { def init() { return }  def m(p) { return p; y }  def n() { 1 }
\*           def w() { while y {} }  def to_s() { x = 1 }  def self.c() { return }
\*           def r() { class B { return } } }
ClassA ==
    ClassDefinition("A",
        << Define("init", <<>>, <<ReturnNothing>>),
           Define("m", <<"p">>, <<Return(Variable("p")), Expression(Variable("y"))>>),
           Define("n", <<>>, <<Expression(NumberLit(1))>>),
           Define("w", <<>>, <<WhileLoop(Variable("y"), <<>>)>>),
           Define("to_s", <<>>, <<Set("x", NumberLit(1))>>),
           MethodDefinition(TRUE, "c", <<>>, <<ReturnNothing>>),
           Define("r", <<>>, <<ClassDefinition("B", <<ReturnNothing>>)>>) >>)
\* class B {}
ClassB == ClassDefinition("B", <<>>)
\* class A { def z() {} }
ClassAz == ClassDefinition("A", <<Define("z", <<>>, <<>>)>>)
\* class C { def init() { return 1 } }
ClassC == ClassDefinition("C", <<Define("init", <<>>, <<Return(NumberLit(1))>>)>>)
\* class D { def init() { y } }
ClassD == ClassDefinition("D", <<Define("init", <<>>, <<Expression(Variable("y"))>>)>>)
\* class E { y }
ClassE == ClassDefinition("E", <<Expression(Variable("y"))>>)
\* class H { def init() { class B { return } } }
ClassH ==
    ClassDefinition("H",
        <<Define("init", <<>>, <<ClassDefinition("B", <<ReturnNothing>>)>>)>>)
\* class It { def init() { self.done = false }  def iter() { self }
\*            def next() { if done { nil } else { self.done = true; (nil, nil) } } }
ClassIt ==
    ClassDefinition("It",
        << Define("init", <<>>, <<Assignment(Access(self, Variable("done")), "",
                                             BooleanLit(FALSE))>>),
           Define("iter", <<>>, <<Expression(self)>>),
           Define("next", <<>>,
                  <<Expression(IfElse(Variable("done"), <<Expression(NilLit)>>,
                        << Assignment(Access(self, Variable("done")), "",
                                      BooleanLit(TRUE)),
                           Expression(TupleLit(<<NilLit, NilLit>>)) >>))>>) >>)

\* class J { def init() { return }  def iter() { self }  def next() { y } }
ClassJ ==
    ClassDefinition("J",
        << Define("init", <<>>, <<ReturnNothing>>),
           Define("iter", <<>>, <<Expression(self)>>),
           Define("next", <<>>, <<Expression(Variable("y"))>>) >>)

\* class K { def init() { self.v = 1 }  def __index__(i) { v }
\*           def __set_index__(i, e) { self.v = e } }
ClassK ==
    ClassDefinition("K",
        << Define("init", <<>>, <<Assignment(Access(self, Variable("v")), "",
                                             NumberLit(1))>>),
           Define("__index__", <<"i">>, <<Expression(Variable("v"))>>),
           Define("__set_index__", <<"i", "e">>,
                  <<Assignment(Access(self, Variable("v")), "", Variable("e"))>>) >>)

\* class G { def self.m() { return }  G.__name__ = 1 }
ClassG ==
    ClassDefinition("G",
        << MethodDefinition(TRUE, "m", <<>>, <<ReturnNothing>>),
           Assignment(Access(Variable("G"), Variable("__name__")), "", NumberLit(1)) >>)

Statements ==
    << ClassA, ClassB, ClassC, ClassD, ClassE, ClassG, ClassH, ClassIt, ClassJ,
       ClassK, ClassAz,
       \* (|| { def q() {} })()
       Expression(Call(ClosureExpr(<<>>, <<Define("q", <<>>, <<>>)>>), <<>>)),
       \* nil.p = 1;  class Bool { def z() {} }
       Assignment(Access(NilLit, Variable("p")), "", NumberLit(1)),
       ClassDefinition("Bool", <<Define("z", <<>>, <<>>)>>),
       \* class x {}
       ClassDefinition("x", <<>>),
       \* A().p += 1;  if true { k = K(); k.v += 1 }
       Assignment(Access(New("A"), Variable("p")), "PlusEqual", NumberLit(1)),
       Expression(If(BooleanLit(TRUE),
                     <<Set("k", New("K")),
                       Assignment(Access(Variable("k"), Variable("v")), "PlusEqual",
                                  NumberLit(1))>>)),
       \* K()[0] += 1;  K()[0] = 2;  if true { k = K(); k[0] += 1 };  A()[0] += 1
       Assignment(Index(New("K"), NumberLit(0)), "PlusEqual", NumberLit(1)),
       Assignment(Index(New("K"), NumberLit(0)), "", NumberLit(2)),
       Expression(If(BooleanLit(TRUE),
                     <<Set("k", New("K")),
                       Assignment(Index(Variable("k"), NumberLit(0)), "PlusEqual",
                                  NumberLit(1))>>)),
       Assignment(Index(New("A"), NumberLit(0)), "PlusEqual", NumberLit(1)),
       \* x = A().m(2);  A().m();  A().m(y);  x = A().n();  A().w();  x = A().to_s();
       \* x = A().r();  x = H()
       Set("x", Send(New("A"), "r", <<>>)),
       Set("x", New("H")),
       Set("x", Send(New("A"), "m", <<NumberLit(2)>>)),
       Expression(Send(New("A"), "m", <<>>)),
       Expression(Send(New("A"), "m", <<Variable("y")>>)),
       Set("x", Send(New("A"), "n", <<>>)),
       Expression(Send(New("A"), "w", <<>>)),
       Set("x", Send(New("A"), "to_s", <<>>)),
       \* A::m(1);  A::c();  G::m(1);  A.to_s();  x = B();  B().to_s();  C();  D()
       Expression(Call(Path(<<"A", "m">>), <<NumberLit(1)>>)),
       Expression(Call(Path(<<"A", "c">>), <<>>)),
       Expression(Call(Path(<<"G", "m">>), <<NumberLit(1)>>)),
       Expression(Send(Variable("A"), "to_s", <<>>)),
       Set("x", New("B")),
       Expression(Send(New("B"), "to_s", <<>>)),
       Expression(New("C")),
       Expression(New("D")),
       \* break;  continue;  return;  use A
       BreakStmt, ContinueStmt, ReturnNothing, Use(<<"A">>),
       \* use x;  use G::__name__
       Use(<<"x">>), Use(<<"G", "__name__">>),
       \* while y {};  while true { break };  while true { continue }
       WhileLoop(Variable("y"), <<>>),
       WhileLoop(BooleanLit(TRUE), <<BreakStmt>>),
       WhileLoop(BooleanLit(TRUE), <<ContinueStmt>>),
       \* for a in It() {};  for a, b in It() { continue };  for a, b, c in It() {}
       ForIn(<<"a">>, New("It"), <<>>),
       ForIn(<<"a", "b">>, New("It"), <<ContinueStmt>>),
       ForIn(<<"a", "b", "c">>, New("It"), <<>>),
       \* while true { while true { break }; break };  for a in It() { while true { break } }
       \* while true { for a in It() { continue }; break }
       WhileLoop(BooleanLit(TRUE),
                 <<WhileLoop(BooleanLit(TRUE), <<BreakStmt>>), BreakStmt>>),
       ForIn(<<"a">>, New("It"), <<WhileLoop(BooleanLit(TRUE), <<BreakStmt>>)>>),
       WhileLoop(BooleanLit(TRUE),
                 <<ForIn(<<"a">>, New("It"), <<ContinueStmt>>), BreakStmt>>),
       \* while true { (|| { break })() };  for a in It() { (|| { continue })() }
       WhileLoop(BooleanLit(TRUE),
                 <<Expression(Call(ClosureExpr(<<>>, <<BreakStmt>>), <<>>))>>),
       ForIn(<<"a">>, New("It"),
             <<Expression(Call(ClosureExpr(<<>>, <<ContinueStmt>>), <<>>))>>),
       \* for a in J() {}
       ForIn(<<"a">>, New("J"), <<>>),
       \* x = 1 + nil;  x = 1 == nil
       Set("x", Binary(NumberLit(1), "Plus", NilLit)),
       Set("x", Binary(NumberLit(1), "EqualEqual", NilLit)),
       \* x = (|| { A::c })();  f = |p| { p };  x = f(1);  f();  def g() { return };
       \* x = g()
       Set("x", Call(ClosureExpr(<<>>, <<Expression(Path(<<"A", "c">>))>>), <<>>)),
       Set("f", ClosureExpr(<<"p">>, <<Expression(Variable("p"))>>)),
       Set("x", Call(Variable("f"), <<NumberLit(1)>>)),
       Expression(Call(Variable("f"), <<>>)),
       MethodDefinition(FALSE, "g", <<>>, <<ReturnNothing>>),
       Set("x", Call(Variable("g"), <<>>)),
       \* x = 1;  x += 1;  x = if nil { 1 };  x = nil.__eq__(nil)
       Set("x", NumberLit(1)),
       Assignment(Variable("x"), "PlusEqual", NumberLit(1)),
       Set("x", If(NilLit, <<Expression(NumberLit(1))>>)),
       Set("x", Send(NilLit, "__eq__", <<NilLit>>)),
       \* if true { use A; m(1) };  if true { use A; c() };  x();  h()
       Expression(If(BooleanLit(TRUE),
                     <<Use(<<"A">>), Expression(Call(Variable("m"), <<NumberLit(1)>>))>>)),
       Expression(If(BooleanLit(TRUE),
                     <<Use(<<"A">>), Expression(Call(Variable("c"), <<>>))>>)),
       Expression(Call(Variable("x"), <<>>)),
       Expression(Call(Variable("h"), <<>>)),
       \* x = nil && y;  x = 1 || y;  x = nil || 2;  x = 1 && y;  x = false && y
       Set("x", Binary(NilLit, "LogicalAnd", Variable("y"))),
       Set("x", Binary(NumberLit(1), "LogicalOr", Variable("y"))),
       Set("x", Binary(NilLit, "LogicalOr", NumberLit(2))),
       Set("x", Binary(NumberLit(1), "LogicalAnd", Variable("y"))),
       Set("x", Binary(BooleanLit(FALSE), "LogicalAnd", Variable("y"))),
       \* x = 1 + 2;  x = y + 1;  x = 1 % 2
       Set("x", Binary(NumberLit(1), "Plus", NumberLit(2))),
       Set("x", Binary(Variable("y"), "Plus", NumberLit(1))),
       Set("x", Binary(NumberLit(1), "Percent", NumberLit(2))),
       \* w += h();  A().p = y;  A().p = 1
       Assignment(Variable("w"), "PlusEqual", Call(Variable("h"), <<>>)),
       Assignment(Access(New("A"), Variable("p")), "", Variable("y")),
       Assignment(Access(New("A"), Variable("p")), "", NumberLit(1)),
       \* if true { x = 1; f = || { x }; x = 2; r = f() }
       Expression(If(BooleanLit(TRUE),
                     <<Set("x", NumberLit(1)),
                       Set("f", ClosureExpr(<<>>, <<Expression(Variable("x"))>>)),
                       Set("x", NumberLit(2)),
                       Set("r", Call(Variable("f"), <<>>))>>)),
       \* if true { x = 1; g = |p| { p }; f = || { g(x) }; x = 2; r = f() }
       Expression(If(BooleanLit(TRUE),
                     <<Set("x", NumberLit(1)),
                       Set("g", ClosureExpr(<<"p">>, <<Expression(Variable("p"))>>)),
                       Set("f", ClosureExpr(<<>>,
                                    <<Expression(Call(Variable("g"),
                                                      <<Variable("x")>>))>>)),
                       Set("x", NumberLit(2)),
                       Set("r", Call(Variable("f"), <<>>))>>)),
       \* if true { x = 1; f = || { nil.m(x); x.p = 1; x[x] = 1 } }
       Expression(If(BooleanLit(TRUE),
                     <<Set("x", NumberLit(1)),
                       Set("f", ClosureExpr(<<>>,
                            <<Expression(Send(NilLit, "m", <<Variable("x")>>)),
                              Assignment(Access(Variable("x"), Variable("p")), "",
                                         NumberLit(1)),
                              Assignment(Index(Variable("x"), Variable("x")), "",
                                         NumberLit(1))>>))>>)),
       \* x = if 0 { 1 };  x = "" || y;  x = 0 && y;  while 0 { break };  while nil {}
       Set("x", If(NumberLit(0), <<Expression(NumberLit(1))>>)),
       Set("x", Binary(StringLit(""), "LogicalOr", Variable("y"))),
       Set("x", Binary(NumberLit(0), "LogicalAnd", Variable("y"))),
       WhileLoop(NumberLit(0), <<BreakStmt>>),
       WhileLoop(NilLit, <<>>),
       \* x = if Bool() { 1 };  x = if false { 1 } else { 2 }
       Set("x", If(New("Bool"), <<Expression(NumberLit(1))>>)),
       Set("x", IfElse(BooleanLit(FALSE), <<Expression(NumberLit(1))>>,
                       <<Expression(NumberLit(2))>>)) >>

-----------------------------------------------------------------------------
(* Runtime::exec_program, and the machine as a whole.                      *)

\* the host hands exec_program the next statement of the program
ExecProgramStatement ==
    /\ Running("exec_program")
    /\ executed < MaxStatements
    /\ \E i \in DOMAIN Statements :
          /\ ctrl' = Exec(Statements[i])
          /\ kont' = <<KExecProgram>>
    /\ executed' = executed + 1
    /\ UNCHANGED <<debug_assertions, heap, stack, stack_id, strings,
                   string_count_marker>>
\* the statement returned: an error ends exec_program with it (exec(statement)?)
ExecProgramStatementDone ==
    /\ ReturningTo("exec_program")
    /\ Becomes(IF IsErr(ctrl.result) THEN Goto(Resumed, Exited(ctrl.result))
               ELSE Goto(Resumed, AtExecProgram))
\* no statement is left: Ok(())
ExecProgramEnd ==
    /\ Running("exec_program")
    /\ Becomes(Goto(State, Exited(Ok(NONE))))

Init ==
    /\ debug_assertions \in BOOLEAN
    /\ heap = BootstrapHeap
    /\ stack = <<RootFrame>>
    /\ stack_id = 0
    /\ strings = BootstrapStrings
    /\ string_count_marker = 0
    /\ ctrl = AtExecProgram
    /\ kont = <<>>
    /\ executed = 0

Next ==
    \/ ExecProgramStatement \/ ExecProgramStatementDone \/ ExecProgramEnd
    \/ ExecExpression \/ ExecExpressionDone \/ ExecMethodDefinition
    \/ ExecClassDefinition \/ ExecClassBodyDone
    \/ ExecWhileLoop \/ ExecWhileCondition \/ ExecWhileBody
    \/ ExecBreak \/ ExecContinue \/ ExecUse \/ ExecReturn \/ ExecReturnValue
    \/ ExecForIn \/ ExecForInIterable \/ ExecForInIter \/ ExecForInNext \/ ExecForInBody
    \/ ExecAssignment \/ ExecAssignmentValue \/ ExecAssignmentTarget
    \/ ExecAssignmentStore
    \/ ExecAssignmentIndexTarget
    \/ ExecAssignmentIndex
    \/ ExecAssignmentIndexRead
    \/ ExecAssignmentIndexValue
    \/ ExecAssignmentIndexStored
    \/ EvalVariable \/ EvalLiteral \/ EvalLiteralItems
    \/ EvalExprListItem \/ EvalExprListFailed
    \/ EvalAccess \/ EvalAccessTarget \/ EvalAccessCall
    \/ EvalIfElse \/ EvalIfCondition \/ EvalBinary \/ EvalBinaryLhs \/ EvalBinaryRhs
    \/ EvalPath \/ EvalClosure \/ EvalBlockStatement
    \/ EvalCall \/ EvalCallTarget \/ EvalCallArguments
    \/ CallMethodEnter \/ CallMethodReturn

Spec == Init /\ [][Next]_vars

-----------------------------------------------------------------------------
(* Object::resolve_own_method on its own: it is run on every hierarchy of  *)
(* MaxClasses classes, each with a superclass among the classes before it  *)
(* or none, and with any of the methods of MethodNames in its own table.   *)

MethodNames == {"to_s", "m"}
HierarchyClass(id, superclass, names) ==
    [new_of_class(Class) EXCEPT
        !.superclass = superclass,
        !.methods = [name \in names |->
                        NewMethod(name, id, <<>>, UserBody(<<>>), "Instance")]]
Hierarchies ==
    {[id \in 1..MaxClasses |-> HierarchyClass(id, superclass[id], names[id])] :
        superclass \in {f \in [1..MaxClasses -> 0..MaxClasses] :
                            \A id \in 1..MaxClasses : f[id] < id},
        names \in [1..MaxClasses -> SUBSET MethodNames]}
ResolvedOwnMethod(id, name, method) ==
    [mode |-> "resolve_own_method", id |-> id, name |-> name, method |-> method,
     refs |-> <<>>]

InitResolve ==
    /\ debug_assertions = FALSE
    /\ heap \in Hierarchies
    /\ stack = <<DefaultFrame>>
    /\ stack_id = 0
    /\ strings = EmptyMap
    /\ string_count_marker = 0
    /\ ctrl = AtExecProgram
    /\ kont = <<>>
    /\ executed = 0
\* class.resolve_own_method(name) for some class and name
ResolveOwnMethod ==
    /\ ctrl = AtExecProgram
    /\ \E id \in DOMAIN heap, name \in MethodNames :
          ctrl' = ResolvedOwnMethod(id, name, resolve_own_method(heap, id, name))
    /\ UNCHANGED <<debug_assertions, heap, stack, stack_id, strings,
                   string_count_marker, kont, executed>>
NextResolve == ResolveOwnMethod
SpecResolve == InitResolve /\ [][NextResolve]_vars

-----------------------------------------------------------------------------
(* Runtime::resolve_variable and Runtime::assign_variable on their own.    *)
(* They are run on every scope stack of the root frame and up to MaxFrames *)
(* frames above it, each the frame of a call on one of two instances of a  *)
(* class K, of K's body, or of a loop, and each with or without a local    *)
(* ScopeName; the instances may hold a property and K a method of that     *)
(* name.  The heap is built by the runtime's own constructors.             *)

ScopeName == "x"
\* a name that Object defines as a method and K does not
InheritedName == "to_s"
\* what a local or a property of that name holds
ScopeValues == {bool_true, bool_false}
\* class K {}, and two objects made by K()
ScopeClass ==
    create_simple_class([heap |-> BootstrapHeap, strings |-> BootstrapStrings,
                         string_count_marker |-> 0], <<RootFrame>>, "K")
ScopeFirst == create_object(ScopeClass.rt, ScopeClass.value)
ScopeSecond == create_object(ScopeFirst.rt, ScopeClass.value)
WithProperty(object, value) ==
    IF value = NONE THEN object ELSE set_property(object, ScopeName, value)
WithLocal(frame, value) ==
    IF value = NONE THEN frame
    ELSE [frame EXCEPT !.variables = Put(@, ScopeName, value)]
ScopeHeaps ==
    {[(IF defined
       THEN define_method(ScopeSecond.rt.heap, ScopeClass.value, "Instance", ScopeName,
                          <<>>, UserBody(<<>>)).heap
       ELSE ScopeSecond.rt.heap)
      EXCEPT ![ScopeFirst.value] = WithProperty(@, first),
             ![ScopeSecond.value] = WithProperty(@, second)] :
        defined \in BOOLEAN,
        first \in ScopeValues \cup {NONE},
        second \in ScopeValues \cup {NONE}}
\* the frames call_method, a class definition and a loop push
ScopeFrames ==
    {WithLocal(frame, value) :
        frame \in {NewFrame(ScopeFirst.value, NONE, EmptyMap),
                   NewFrame(ScopeSecond.value, NONE, EmptyMap),
                   NewFrame(NONE, ScopeClass.value, EmptyMap),
                   DefaultFrame},
        value \in ScopeValues \cup {NONE}}
ScopeStacks ==
    {<<WithLocal(ScopeClass.stack[1], value)>>
        \o [i \in DOMAIN frames |-> [frames[i] EXCEPT !.id = i - 1]] :
        value \in ScopeValues \cup {NONE},
        frames \in UNION {[1..n -> ScopeFrames] : n \in 0..MaxFrames}}
ResolvedVariable(name, value) ==
    [mode |-> "resolve_variable", name |-> name, value |-> value,
     refs |-> IF value = NONE THEN <<>> ELSE <<value>>]
AssignedVariable(name, object) ==
    [mode |-> "assign_variable", name |-> name, object |-> object, refs |-> <<object>>]

InitScope ==
    /\ debug_assertions = FALSE
    /\ heap \in ScopeHeaps
    /\ stack \in ScopeStacks
    /\ stack_id = Len(stack) - 1
    /\ strings = ScopeSecond.rt.strings
    /\ string_count_marker = ScopeSecond.rt.string_count_marker
    /\ ctrl = AtExecProgram
    /\ kont = <<>>
    /\ executed = 0
\* self.resolve_variable(name)
ResolveVariable ==
    /\ ctrl = AtExecProgram
    /\ \E name \in {"self", ScopeName, InheritedName} :
          LET found == resolve_variable(RuntimeOf(State), stack, name)
          IN /\ heap' = found.rt.heap
             /\ strings' = found.rt.strings
             /\ string_count_marker' = found.rt.string_count_marker
             /\ ctrl' = ResolvedVariable(name, found.value)
    /\ UNCHANGED <<debug_assertions, stack, stack_id, kont, executed>>
\* self.assign_variable(name, object)
AssignVariable ==
    /\ ctrl = AtExecProgram
    /\ \E object \in ScopeValues :
          /\ stack' = assign_variable(stack, ScopeName, object)
          /\ ctrl' = AssignedVariable(ScopeName, object)
    /\ UNCHANGED <<debug_assertions, heap, strings, string_count_marker, stack_id,
                   kont, executed>>
ResolvedAfterAssignment(name, object, value) ==
    [mode |-> "resolve_after_assign", name |-> name, object |-> object,
     value |-> value, refs |-> Some(<<object, value>>)]
\* self.resolve_variable(name) right after self.assign_variable(name, object)
ResolveAssignedVariable ==
    /\ ctrl.mode = "assign_variable"
    /\ LET found == resolve_variable(RuntimeOf(State), stack, ctrl.name)
       IN /\ heap' = found.rt.heap
          /\ strings' = found.rt.strings
          /\ string_count_marker' = found.rt.string_count_marker
          /\ ctrl' = ResolvedAfterAssignment(ctrl.name, ctrl.object, found.value)
    /\ UNCHANGED <<debug_assertions, stack, stack_id, kont, executed>>
NextScope == ResolveVariable \/ AssignVariable \/ ResolveAssignedVariable
SpecScope == InitScope /\ [][NextScope]_vars

-----------------------------------------------------------------------------
(* Properties of the evaluator.                                            *)

\* the evaluator is returning to an activation of kind k
ReturnsTo(k) == ctrl.mode = "return" /\ Len(kont) > 0 /\ Top.k = k
\* the evaluator is returning to call_method's user-body arm, which runs the method
\* of the frame on top of kont
ReturnsToCall == ReturnsTo("call_method")

\* The activations that push a frame and hold its id until they pop it.
FrameOwners ==
    {"class_body", "while_condition", "while_body", "for_in_next", "for_in_body",
     "call_method"}
\* the ids those in progress hold, outermost first, and the ids on the scope stack
PushedIds ==
    LET owners == SelectSeq(kont, LAMBDA frame : frame.k \in FrameOwners)
    IN [i \in 1..Len(owners) |-> owners[i].stack_id]
StackIds == [i \in 1..Len(stack) |-> stack[i].id]

\* C1: push and pop are strictly paired: whenever a class definition, a loop or a
\* call of a user body has returned (with Ok, an error or a signal), the scope stack
\* is back to what it was on entry; so at every moment the stack holds the root
\* frame and exactly the frames of the activations still in progress, in order.
C1_FramesPaired == ctrl.mode # "panic" => StackIds = <<0>> \o PushedIds
\* exec_program has returned and a frame other than the root is still on the stack
C1_FrameLeft == ctrl.mode = "exited" /\ Len(stack) > 1

\* C2: every pop_stack_frame(stack_id) removes the frame whose id is stack_id, and
\* the assertion "popping a different stack frame than was pushed" never fails.
C2_PopsThePushedFrame ==
    /\ [](ctrl.mode = "panic"
            => ctrl.message # "popping a different stack frame than was pushed")
    /\ [][Len(stack') < Len(stack) => PopAssertionHolds(stack, Top.stack_id)]_vars
\* the assertion has failed in a call whose body left a loop's frame behind
C2_AssertionFailed ==
    /\ ctrl = Panicked("popping a different stack frame than was pushed")
    /\ Len(stack) > 1
    /\ stack[Len(stack)].instance # NONE

\* C3: on every invocation of call_method the receiver is a class object exactly
\* when the method's receiver kind is Class.
C3_ReceiverKindMatches ==
    ctrl.mode = "call_method"
        => (is_class(heap, ctrl.receiver) <=> ctrl.method.receiver = "Class")
\* call_method is invoked with an instance-kind method on a class object
C3_InstanceMethodOnClass ==
    /\ ctrl.mode = "call_method"
    /\ is_class(heap, ctrl.receiver)
    /\ ctrl.method.receiver = "Instance"

\* a return signal is on its way out of the activation on top of kont
ReturnSignalled ==
    /\ ctrl.mode = "return"
    /\ IsErr(ctrl.result)
    /\ ctrl.result.error = "ReturnFromMethod"
    /\ Len(kont) > 0

\* C4: a return signal is caught exactly at the nearest enclosing call: it leaves
\* every activation inside the call unchanged, with nothing else run, and when it
\* reaches the call of a method other than init the call yields the returned
\* value, nil for a bare return, and never the signal.
C4_ReturnCaughtAtCall ==
    [][ReturnSignalled
        => CASE Top.k = "call_method" /\ Top.method.name # "init" ->
                    ctrl' = Returning(Ok(IF ctrl.result.value = NONE THEN nil
                                         ELSE ctrl.result.value))
             [] Top.k \in {"call_method", "exec_program"} -> TRUE
             [] OTHER -> ctrl' = ctrl /\ kont' = Caller]_vars
\* x = A().m(2) has run to its end: m's `return p` made the call yield the 2
C4_ReturnedValue ==
    /\ ctrl.mode = "exited"
    /\ IsOk(ctrl.result)
    /\ Has(stack[1].variables, "x")
    /\ IsNumber(heap, stack[1].variables["x"])
    /\ NumberOf(heap, stack[1].variables["x"]) = 2

\* the body of a method other than init is back at call_method without an error
FellThrough == ReturnsToCall /\ Top.method.name # "init" /\ IsOk(ctrl.result)
LastIsExpression(block) == Len(block) > 0 /\ block[Len(block)].t = "Expression"

\* C5 as stated: normal fall-through of a method other than init makes call_method
\* yield nil, whatever the last statement of the body is.
C5_FallThroughYieldsNil == [][FellThrough => ctrl' = Returning(Ok(nil))]_vars
\* C5: normal fall-through of a method other than init makes call_method yield what
\* its body yields: the value of the last statement when that is an expression
\* statement, nil when it is any other statement or the body is empty.
C5_FallThroughYieldsBlockValue ==
    /\ [](FellThrough /\ ~LastIsExpression(Top.method.body.block)
            => ctrl.result = Ok(nil))
    /\ [][FellThrough => ctrl' = Returning(ctrl.result)]_vars
    /\ [][ReturnsTo("eval_block") /\ IsOk(ctrl.result) /\ Top.tail_expression
            => ctrl' = Returning(ctrl.result) /\ kont' = Caller]_vars
\* A().n(), whose body is the expression 1, has yielded a number to x = A().n()
C5_YieldedLastExpression ==
    /\ ReturnsTo("assignment_value")
    /\ Top.assignment.value = Send(New("A"), "n", <<>>)
    /\ IsOk(ctrl.result)
    /\ IsNumber(heap, ctrl.result.value)
    /\ NumberOf(heap, ctrl.result.value) = 1

\* C6: call_method on a user-defined init yields the receiver when the body falls
\* through or executes a bare return, fails with ReturnFromInitializer when the body
\* returns a value, and propagates any other error of the body unchanged.
C6_InitReturnsReceiver ==
    [][ReturnsToCall /\ Top.method.name = "init"
        => ctrl' = Returning(
              CASE IsOk(ctrl.result) -> Ok(Top.receiver)
                [] IsErr(ctrl.result) /\ ctrl.result.error = "ReturnFromMethod"
                   /\ ctrl.result.value = NONE -> Ok(Top.receiver)
                [] IsErr(ctrl.result) /\ ctrl.result.error = "ReturnFromMethod"
                   /\ ctrl.result.value # NONE -> Err("ReturnFromInitializer")
                [] OTHER -> ctrl.result)]_vars
\* C() has failed: C's init returns a value
C6_ReturnFromInitializer ==
    /\ ctrl = Exited(Err("ReturnFromInitializer"))
    /\ Len(stack) = 1

\* C7: a construction yields an object of the class constructed: the init call,
\* synthesized or defined, that returns without an error returns an object whose
\* class is the class of the instance it was given.
C7_ConstructionYieldsInstance ==
    [][/\ ctrl.mode = "call_method" /\ ctrl.method.name = "init"
          /\ ctrl.method.body.kind = "System"
          /\ ctrl'.mode = "return" /\ IsOk(ctrl'.result)
          => heap'[ctrl'.result.value].class = heap[ctrl.receiver].class
       /\ ReturnsToCall /\ Top.method.name = "init"
          /\ ctrl'.mode = "return" /\ IsOk(ctrl'.result)
          => heap'[ctrl'.result.value].class = heap[Top.receiver].class]_vars
\* x = B() has run to its end, and the class of x is no class
C7_ClassIsAnInstance ==
    /\ ctrl.mode = "exited"
    /\ IsOk(ctrl.result)
    /\ Has(stack[1].variables, "x")
    /\ ~is_class(heap, heap[stack[1].variables["x"]].class)

\* C8: call_method on a user body (here a method defined in a class, called on a
\* receiver of its kind) with a number of arguments other than the number of
\* parameters fails with ArityMismatch(expected = parameters, actual = arguments),
\* pushes no frame, runs nothing of the body and leaves the scope stack as it was.
C8_ArityMismatchReported ==
    [][/\ ctrl.mode = "call_method"
       /\ ctrl.method.body.kind = "User"
       /\ Len(ctrl.arguments) # Len(ctrl.method.params)
       /\ is_class(heap, ctrl.method.class)
       /\ (is_class(heap, ctrl.receiver) <=> ctrl.method.receiver = "Class")
       => /\ ctrl' = Returning(ArityMismatch(Len(ctrl.method.params),
                                             Len(ctrl.arguments)))
          /\ UNCHANGED <<stack, stack_id, kont>>]_vars
\* A().m() has failed with the mismatch, one parameter and no argument
C8_ArityMismatch ==
    /\ ctrl = Exited(ArityMismatch(1, 0))
    /\ Len(stack) = 1

\* C9: exec_program never returns the Break or the Continue signal to the host.
C9_NoLoopSignalAtTopLevel ==
    ctrl.mode = "exited" => ctrl.result \notin {Break, Continue}
\* exec_program has returned the Break signal
C9_BreakAtTopLevel == ctrl = Exited(Break)

\* a class followed by its superclass, that one's superclass, and so on
RECURSIVE SuperclassChain(_, _)
SuperclassChain(h, id) ==
    IF h[id].superclass = NONE THEN <<id>>
    ELSE <<id>> \o SuperclassChain(h, h[id].superclass)

\* C10: resolution walks the superclass chain: it returns the method of the class's
\* own table if there is one, otherwise what resolution on the superclass returns,
\* otherwise none; so the method returned is that of the nearest class of the chain
\* that defines the name, a subclass's method shadows its superclass's, and the
\* superclass still resolves to its own.
C10_ResolvesAlongSuperclassChain ==
    ctrl.mode = "resolve_own_method" =>
        LET chain == SuperclassChain(heap, ctrl.id)
            definers == {i \in DOMAIN chain : Has(heap[chain[i]].methods, ctrl.name)}
            own == heap[ctrl.id]
        IN /\ IF definers = {} THEN ctrl.method = NoMethod
              ELSE \E i \in definers :
                      /\ \A j \in definers : i <= j
                      /\ ctrl.method = heap[chain[i]].methods[ctrl.name]
                      /\ ctrl.method.class = chain[i]
           /\ Has(own.methods, ctrl.name) => ctrl.method = own.methods[ctrl.name]
           /\ ~Has(own.methods, ctrl.name) /\ own.superclass # NONE
                => ctrl.method = resolve_own_method(heap, own.superclass, ctrl.name)
           /\ ~Has(own.methods, ctrl.name) /\ own.superclass = NONE
                => ctrl.method = NoMethod
\* a name that the class's superclass has and its own table has not has been
\* resolved on the class, to the superclass's method
C10_Inherited ==
    /\ ctrl.mode = "resolve_own_method"
    /\ ~Has(heap[ctrl.id].methods, ctrl.name)
    /\ heap[ctrl.id].superclass # NONE
    /\ Has(heap[heap[ctrl.id].superclass].methods, ctrl.name)
    /\ ctrl.method.class = heap[ctrl.id].superclass

\* a method definition statement is about to run
DefinesMethod == ctrl.mode = "exec" /\ ctrl.statement.t = "MethodDefinition"

\* C11: a method definition fails with DuplicateMethodDefinition exactly when the
\* own table of the class it defines on has the name already, whatever the
\* superclasses define; when it fails no table changes; when it succeeds the own
\* table of that class gains the name, keeps every method it had, and no other
\* object changes.
C11_DuplicateMethodDefinition ==
    [][DefinesMethod =>
        LET class == current_class(stack)
            name == ctrl.statement.name
        IN IF Has(heap[class].methods, name)
           THEN /\ ctrl' = Returning(Err("DuplicateMethodDefinition"))
                /\ heap' = heap
           ELSE /\ ctrl' = Returning(Ok(NONE))
                /\ DOMAIN heap' = DOMAIN heap
                /\ \A id \in DOMAIN heap \ {class} : heap'[id] = heap[id]
                /\ DOMAIN heap'[class].methods = DOMAIN heap[class].methods \cup {name}
                /\ \A other \in DOMAIN heap[class].methods :
                      heap'[class].methods[other] = heap[class].methods[other]
                /\ heap'[class].methods[name].name = name
                /\ heap'[class].methods[name].class = class
                /\ [heap'[class] EXCEPT !.methods = heap[class].methods] = heap[class]]_vars
\* a second definition of a name has failed, and a class holds a to_s of its own
\* that shadows the to_s of its superclass
C11_RedefinedAndShadowed ==
    /\ ctrl = Exited(Err("DuplicateMethodDefinition"))
    /\ \E class \in DOMAIN heap :
          /\ is_class(heap, class)
          /\ heap[class].superclass = Object
          /\ Has(heap[class].methods, "to_s")
          /\ heap[class].methods["to_s"].body.kind = "User"
          /\ Has(heap[Object].methods, "to_s")

\* the innermost of the frames `holds` of a scope stack, 0 when there is none
Innermost(holds) ==
    IF holds = {} THEN 0 ELSE CHOOSE i \in holds : \A j \in holds : j <= i
InstanceFrames(st) == {i \in DOMAIN st : st[i].instance # NONE}
LocalFrames(st, name) == {i \in DOMAIN st : Has(st[i].variables, name)}

\* C12 as stated: self resolves to the instance of the nearest frame that has one;
\* any other name resolves to what the innermost frame that holds it gives, where a
\* frame holds the name as a local or, failing that, as a property of its instance.
C12_EveryFrameInstanceConsulted ==
    [][ctrl'.mode = "resolve_variable" =>
        LET name == ctrl'.name
            nearest == Innermost(InstanceFrames(stack))
            holder == Innermost(LocalFrames(stack, name) \cup
                        {i \in InstanceFrames(stack) :
                            get_property(heap[stack[i].instance], name) # NONE})
        IN IF name = "self"
           THEN ctrl'.value = IF nearest = 0 THEN NONE ELSE stack[nearest].instance
           ELSE holder # 0 =>
                    ctrl'.value =
                        IF Has(stack[holder].variables, name)
                        THEN stack[holder].variables[name]
                        ELSE get_property(heap[stack[holder].instance], name)]_vars

\* C12: self resolves to the instance of the nearest frame that has one.  Any other
\* name has three places it may be found: the innermost frame that has it as a
\* local, the nearest frame that has an instance if that instance has it as a
\* property, and the nearest frame that has a class if that class resolves it as a
\* method.  The innermost of these places gives the result (in one frame the local
\* goes before the property and the property before the method); a method is
\* returned as a fresh method object; instances and classes of frames further out
\* are never consulted, and with no such place the result is none.
C12_NearestInstanceConsulted ==
    [][ctrl'.mode = "resolve_variable" =>
        LET name == ctrl'.name
            value == ctrl'.value
            local_at == Innermost(LocalFrames(stack, name))
            nearest == Innermost(InstanceFrames(stack))
            class_at == Innermost({i \in DOMAIN stack : stack[i].class # NONE})
            property == IF nearest = 0 THEN NONE
                        ELSE get_property(heap[stack[nearest].instance], name)
            method == IF class_at = 0 THEN NoMethod
                      ELSE resolve_own_method(heap, stack[class_at].class, name)
            property_at == IF property = NONE THEN 0 ELSE nearest
            method_at == IF IsSome(method) THEN class_at ELSE 0
        IN CASE name = "self" ->
                    /\ value = IF nearest = 0 THEN NONE ELSE stack[nearest].instance
                    /\ heap' = heap
             [] name # "self" /\ local_at > 0 /\ local_at >= property_at
                    /\ local_at >= method_at ->
                    /\ value = stack[local_at].variables[name]
                    /\ heap' = heap
             [] name # "self" /\ property_at > 0 /\ property_at > local_at
                    /\ property_at >= method_at ->
                    /\ value = property
                    /\ heap' = heap
             [] name # "self" /\ method_at > 0 /\ method_at > local_at
                    /\ method_at > property_at ->
                    /\ value \in DOMAIN heap' \ DOMAIN heap
                    /\ heap'[value].class = Method
                    /\ get_property(heap'[value], "__receiver__") = method.class
                    /\ HasName(heap', value) /\ NameOf(heap', value) = method.name
             [] OTHER -> value = NONE /\ heap' = heap]_vars
\* a name has resolved to none although the instance of a frame further out than
\* the nearest instance has it as a property
C12_OuterInstanceNotConsulted ==
    /\ ctrl.mode = "resolve_variable"
    /\ ctrl.name = ScopeName
    /\ ctrl.value = NONE
    /\ \E i \in InstanceFrames(stack) :
          /\ i < Innermost(InstanceFrames(stack))
          /\ get_property(heap[stack[i].instance], ScopeName) # NONE

\* C13: assign_variable is find-or-create.  When some frame has the name as a local,
\* the binding of the innermost such frame is overwritten; when none has, the name
\* is defined in the top frame.  Nothing else changes: every other frame, every
\* other local of that frame, and the frame's other fields stay as they were.
C13_FindOrCreate ==
    [][ctrl'.mode = "assign_variable" =>
        LET name == ctrl'.name
            found == Innermost(LocalFrames(stack, name))
            target == IF found = 0 THEN Len(stack) ELSE found
        IN /\ Len(stack') = Len(stack)
           /\ \A i \in DOMAIN stack \ {target} : stack'[i] = stack[i]
           /\ DOMAIN stack'[target].variables =
                 DOMAIN stack[target].variables \cup {name}
           /\ stack'[target].variables[name] = ctrl'.object
           /\ \A other \in DOMAIN stack[target].variables \ {name} :
                 stack'[target].variables[other] = stack[target].variables[other]
           /\ [stack'[target] EXCEPT !.variables = stack[target].variables]
                 = stack[target]]_vars
\* the name was a local of the root frame and of the frame above it, and of no
\* frame further in: the assignment has changed the frame above the root alone
C13_OverwroteInnermostHolder ==
    /\ ctrl.mode = "assign_variable"
    /\ Len(stack) = 3
    /\ ~Has(stack[3].variables, ctrl.name)
    /\ Has(stack[2].variables, ctrl.name)
    /\ stack[2].variables[ctrl.name] = ctrl.object
    /\ Has(stack[1].variables, ctrl.name)
    /\ stack[1].variables[ctrl.name] # ctrl.object

\* a call whose target is a plain name is about to be resolved
CallsByName ==
    ctrl.mode = "eval" /\ ctrl.expression.t = "Call"
    /\ ctrl.expression.target.t = "Variable"
\* the call goes on with that receiver and method: its arguments are evaluated for
\* call_method(receiver, method, arguments)
GoesOnWith(receiver, method) ==
    /\ Len(kont') > Len(kont)
    /\ kont'[Len(kont) + 1] = KCallArguments(receiver, method)
\* the first of the classes that resolves the name to a class-receiver method
RECURSIVE FirstWithClassMethod(_, _, _)
FirstWithClassMethod(h, classes, name) ==
    IF Len(classes) = 0 THEN NONE
    ELSE IF resolve_own_method(h, classes[1], name).receiver = "Class" THEN classes[1]
    ELSE FirstWithClassMethod(h, Tail(classes), name)

\* C14: an unqualified call name(args), for a name that as a variable resolves to a
\* class or to nothing, is resolved in this order: (1) the variable is a class: an
\* instance of it is constructed, its init is the method; (2) else there is a
\* current instance and its class resolves the name: that method, on the instance;
\* (3) else the first class, among the open classes of the frames from the
\* innermost, that resolves the name to a class-receiver method: that method, on
\* that class; (4) else the call fails with NoSuchMethod.
C14_UnqualifiedCallOrder ==
    [][CallsByName =>
        LET name == ctrl.expression.target.name
            found == ResolveInFrames(heap, stack, name, Len(stack), FALSE, FALSE)
            instance == current_instance(stack)
            instance_method ==
                IF instance = NONE THEN NoMethod
                ELSE resolve_own_method(heap, heap[instance].class, name)
            open_class == FirstWithClassMethod(heap, search_classes(stack), name)
        IN CASE found.kind = "Value" /\ is_class(heap, found.value) ->
                    /\ Len(heap') = Len(heap) + 1
                    /\ heap'[Len(heap')].class = found.value
                    /\ GoesOnWith(Len(heap'), get_init_method(heap, found.value))
             [] found.kind = "None" /\ IsSome(instance_method) ->
                    GoesOnWith(instance, instance_method)
             [] found.kind = "None" /\ ~IsSome(instance_method) /\ open_class # NONE ->
                    GoesOnWith(open_class, resolve_own_method(heap, open_class, name))
             [] found.kind = "None" /\ ~IsSome(instance_method) /\ open_class = NONE ->
                    ctrl' = Returning(Err("NoSuchMethod")) /\ kont' = kont
             [] OTHER -> TRUE]_vars
\* call_method is entered on a class of the root frame's open classes with a method
\* that is not a class-receiver method
C14_InstanceMethodOfOpenClass ==
    /\ ctrl.mode = "call_method"
    /\ \E i \in DOMAIN stack[1].open_classes : stack[1].open_classes[i] = ctrl.receiver
    /\ ctrl.receiver # Main
    /\ ctrl.method.receiver = "Instance"
    /\ ctrl.method.name = "m"
    /\ Len(kont) > 0 /\ Top.k = "eval_block"

\* a binary expression with || or && whose operand has just returned a value
LogicalOperand(k) ==
    /\ ReturningTo(k)
    /\ ~IsErr(ctrl.result)
    /\ Top.binary.op \in {"LogicalOr", "LogicalAnd"}
AssignedValueFailed == ReturningTo("assignment_value") /\ IsErr(ctrl.result)
\* C16: when the right-hand side of an assignment fails, the statement returns that
\* error at once: the target object and the current value are not evaluated, and
\* no object or binding changes.
C16_ValueErrorReturnedFirst ==
    [][AssignedValueFailed =>
            /\ ctrl' = Returning(ctrl.result)
            /\ kont' = Caller
            /\ <<heap, stack, stack_id>>' = <<heap, stack, stack_id>>]_vars
\* the target object of a member assignment is being evaluated, or has been, with
\* the failed right-hand side kept aside
C16_TargetEvaluatedAfterFailure ==
    \E i \in DOMAIN kont :
        /\ kont[i].k = "assignment_target"
        /\ IsErr(kont[i].value)
        /\ ctrl.mode = "call_method"

\* The names a block, statement or expression refers to as variables, wherever they
\* occur in it.
RECURSIVE referenced_in_block(_), referenced_in_stmt(_), referenced_in_expr(_)
referenced_in_block(block) ==
    UNION {referenced_in_stmt(block[i]) : i \in DOMAIN block}
referenced_in_stmt(stmt) ==
    CASE stmt.t = "ForIn" ->
            referenced_in_expr(stmt.iterable) \cup referenced_in_block(stmt.body)
      [] stmt.t = "WhileLoop" ->
            referenced_in_expr(stmt.condition) \cup referenced_in_block(stmt.body)
      [] stmt.t = "Expression" -> referenced_in_expr(stmt.expression)
      [] stmt.t = "Return" ->
            IF stmt.has_retval THEN referenced_in_expr(stmt.retval) ELSE {}
      [] stmt.t = "Assignment" ->
            referenced_in_expr(stmt.value)
            \cup (CASE stmt.target.t = "Access" -> referenced_in_expr(stmt.target.target)
                   [] stmt.target.t = "Index" ->
                        referenced_in_expr(stmt.target.target)
                        \cup referenced_in_expr(stmt.target.index)
                   [] OTHER -> {})
      [] OTHER -> {}
referenced_in_expr(expr) ==
    CASE expr.t = "Variable" -> {expr.name}
      [] expr.t = "Call" ->
            referenced_in_expr(expr.target)
            \cup UNION {referenced_in_expr(expr.arguments[i]) : i \in DOMAIN expr.arguments}
      [] expr.t = "Access" ->
            referenced_in_expr(expr.target)
            \cup (IF expr.member.t = "Call"
                  THEN UNION {referenced_in_expr(expr.member.arguments[i]) :
                                i \in DOMAIN expr.member.arguments}
                  ELSE {})
      [] expr.t = "IfElse" ->
            referenced_in_expr(expr.condition) \cup referenced_in_block(expr.then_body)
            \cup referenced_in_block(expr.else_body)
      [] expr.t = "Binary" -> referenced_in_expr(expr.lhs) \cup referenced_in_expr(expr.rhs)
      [] expr.t = "Closure" -> referenced_in_block(expr.body)
      [] expr.t = "Literal" /\ expr.kind = "Tuple" ->
            UNION {referenced_in_expr(expr.items[i]) : i \in DOMAIN expr.items}
      [] OTHER -> {}
\* C17: a closure expression stores, for every variable its body refers to that is
\* bound to an object when the expression is evaluated, that object as a property
\* of the closure object (so that the body reads it whatever the variable is
\* assigned afterwards).
C17_CapturedAtCreation ==
    [][Evaluating("Closure") /\ ctrl'.mode = "return" /\ ~IsErr(ctrl'.result) =>
            \A name \in referenced_in_block(ctrl.expression.body) :
                LET var == resolve_variable(RuntimeOf(State), stack, name).value
                IN var # NONE /\ var <= Len(heap) =>
                        get_property(heap'[ctrl'.result.value], name) = var]_vars
\* r = f() receives 2, the value x was given after f = || { g(x) } was made with x = 1
C17_ReadsReassignedValue ==
    /\ ctrl.mode = "return"
    /\ ~IsErr(ctrl.result)
    /\ Len(kont) > 0
    /\ Top.k = "assignment_value"
    /\ Top.assignment.target = Variable("r")
    /\ Top.assignment.value = Call(Variable("f"), <<>>)
    /\ IsNumber(heap, ctrl.result.value)
    /\ NumberOf(heap, ctrl.result.value) = 2
    /\ Has(stack[1].variables, "f")
    /\ "x" \in referenced_in_block(heap[stack[1].variables["f"]].methods["__call__"].body.block)
    /\ get_property(heap[stack[1].variables["f"]], "x") = NONE

-----------------------------------------------------------------------------
(* Runtime::create_string and Runtime::cleanup_strings on their own.  The  *)
(* host calls them on the table bootstrap leaves, or on that table after   *)
(* DeadStrings strings were made and dropped (one allocation short of the  *)
(* one that sweeps), keeps the strings it is given in ctrl.refs and drops  *)
(* them one at a time.                                                     *)

StringContents == {"a", "b", "Object"}
DeadStrings ==
    STRING_ALLOCATION_THRESHOLD - Cardinality(DOMAIN BootstrapStrings) - 2
\* the runtime after allocate_string("d1") .. allocate_string("dn"), none of them kept
DroppedName(i) == "d" \o ToString(i)
DroppedStrings(n) ==
    [heap |-> BootstrapHeap
              \o [i \in 1..n |->
                    [set_property(new_of_class(String), "__class__", String)
                        EXCEPT !.primitive = PrimitiveString(DroppedName(i))]],
     strings |-> [key \in DOMAIN BootstrapStrings \cup {DroppedName(i) : i \in 1..n} |->
                    IF Has(BootstrapStrings, key) THEN BootstrapStrings[key]
                    ELSE Len(BootstrapHeap) + (CHOOSE i \in 1..n : DroppedName(i) = key)],
     string_count_marker |-> 0]
RECURSIVE Ascending(_)
Ascending(ids) ==
    IF ids = {} THEN <<>>
    ELSE LET least == CHOOSE id \in ids : \A other \in ids : id <= other
         IN <<least>> \o Ascending(ids \ {least})
\* what the host holds, and the last call it made
Holding(ids) == [mode |-> "strings", refs |-> Ascending(ids)]
CreatedString(ids, value, object) ==
    [mode |-> "create_string", refs |-> Ascending(ids \cup {object}), value |-> value,
     object |-> object]

InitStrings ==
    /\ debug_assertions = FALSE
    /\ stack = <<RootFrame>>
    /\ stack_id = 0
    /\ ctrl = Holding({})
    /\ kont = <<>>
    /\ executed = 0
    /\ \E dropped \in {0, DeadStrings} :
          /\ heap = DroppedStrings(dropped).heap
          /\ strings = DroppedStrings(dropped).strings
          /\ string_count_marker = DroppedStrings(dropped).string_count_marker
\* runtime.create_string(value), the object kept by the host
CreateString ==
    /\ executed < MaxStringCalls
    /\ \E value \in StringContents :
          LET made == create_string(RuntimeOf(State), value)
          IN /\ heap' = made.rt.heap
             /\ strings' = made.rt.strings
             /\ string_count_marker' = made.rt.string_count_marker
             /\ ctrl' = CreatedString(Range(ctrl.refs), value, made.value)
    /\ executed' = executed + 1
    /\ UNCHANGED <<debug_assertions, stack, stack_id, kont>>
\* the host drops one of the strings it holds
DropString ==
    /\ \E id \in Range(ctrl.refs) : ctrl' = Holding(Range(ctrl.refs) \ {id})
    /\ UNCHANGED <<debug_assertions, heap, stack, stack_id, strings,
                   string_count_marker, kont, executed>>
\* runtime.cleanup_strings()
CleanupStrings ==
    /\ LET rt == cleanup_strings(RuntimeOf(State))
       IN /\ heap' = rt.heap
          /\ strings' = rt.strings
          /\ string_count_marker' = rt.string_count_marker
    /\ ctrl' = Holding(Range(ctrl.refs))
    /\ UNCHANGED <<debug_assertions, stack, stack_id, kont, executed>>
NextStrings == CreateString \/ DropString \/ CleanupStrings
SpecStrings == InitStrings /\ [][NextStrings]_vars

\* the string objects of content `value` that something still refers to
LiveStrings(value) ==
    {id \in DOMAIN heap : /\ heap[id].class = String
                          /\ heap[id].primitive.kind = "String"
                          /\ heap[id].primitive.string = value
                          /\ Upgrade(heap, id)}
\* C18: create_string(s) returns the string object of content s made by an earlier
\* call whenever that object is still referred to, and no step, sweep or not,
\* removes or redirects the table entry of a string object that is still referred
\* to.
C18_InternedWhileLive ==
    [][/\ ctrl'.mode = "create_string" =>
            \A id \in LiveStrings(ctrl'.value) : ctrl'.object = id
       /\ \A key \in DOMAIN strings :
            Upgrade(heap, strings[key]) =>
                Has(strings', key) /\ strings'[key] = strings[key]]_vars
\* a string held across a sweep that dropped dead entries is returned again
C18_ReturnedAgainAfterSweep ==
    /\ ctrl.mode = "create_string"
    /\ ctrl.value \notin DOMAIN BootstrapStrings
    /\ ctrl.object < Len(heap)
    /\ string_count_marker > 0
    /\ Cardinality(DOMAIN strings) < DeadStrings
    /\ Len(heap) > Len(BootstrapHeap) + DeadStrings

-----------------------------------------------------------------------------
(* Properties of the interned singletons and of truthiness.                *)

\* a boolean or nil literal is about to be evaluated
EvaluatesSingletonLiteral ==
    Evaluating("Literal") /\ ctrl.expression.kind \in {"Boolean", "Nil"}
\* C19: true, false and nil are each one object made by bootstrap, true and false
\* are distinct, and evaluating a boolean or nil literal returns that object and
\* allocates nothing.
C19_SingletonLiterals ==
    [][EvaluatesSingletonLiteral =>
            /\ ctrl' = Returning(Ok(CASE ctrl.expression.kind = "Nil" -> nil
                                      [] ctrl.expression.boolean -> bool_true
                                      [] OTHER -> bool_false))
            /\ <<heap, strings, string_count_marker>>'
                    = <<heap, strings, string_count_marker>>
            /\ {bool_true, bool_false, nil} \subseteq DOMAIN BootstrapHeap
            /\ Cardinality({bool_true, bool_false, nil}) = 3
            /\ heap'[bool_true].class = Bool
            /\ heap'[bool_false].class = Bool
            /\ heap'[nil].class = NilClass]_vars
\* the literal false, the left operand of &&, has returned the false object of
\* bootstrap with the heap as bootstrap left it
C19_FalseLiteralReturned ==
    /\ ctrl = Returning(Ok(bool_false))
    /\ Len(kont) > 0
    /\ Top.k = "binary_lhs"
    /\ Top.binary.lhs = BooleanLit(FALSE)
    /\ heap = BootstrapHeap

\* the value of object `id` is the boolean false or nil
is_false_or_nil(h, id) ==
    \/ h[id].class = Bool /\ h[id].primitive = PrimitiveBoolean(FALSE)
    \/ h[id].class = NilClass
\* the condition of an if/else, of a while loop or of || or && has just returned
ConditionReturned ==
    /\ \/ ReturningTo("if_condition")
       \/ ReturningTo("while_condition")
       \/ ReturningTo("binary_lhs") /\ Top.binary.op \in {"LogicalOr", "LogicalAnd"}
    /\ ~IsErr(ctrl.result)
\* the step that follows takes the condition for truthy: the then-body starts, the
\* loop body starts, && goes on to its right operand, || stops with the left one
TreatedAsTruthy ==
    CASE Top.k = "if_condition" ->
            LET then == eval_block(Resumed, Top.if_else.then_body)
            IN ctrl' = then.ctrl /\ kont' = then.kont
      [] Top.k = "while_condition" ->
            Len(kont') >= Len(kont) /\ kont'[Len(kont)].k = "while_body"
      [] Top.binary.op = "LogicalAnd" -> ctrl' = Eval(Top.binary.rhs)
      [] OTHER -> ctrl' = Returning(Ok(ctrl.result.value)) /\ kont' = Caller
\* C20: a condition is treated as falsy exactly when its value is the boolean false
\* or nil.
C20_FalsyExactlyFalseAndNil ==
    [][ConditionReturned =>
            (TreatedAsTruthy <=> ~is_false_or_nil(heap, ctrl.result.value))]_vars
\* the then-body of `if Bool() { 1 }` has returned 1, and the condition was a Bool
\* object whose value is false
C20_FalseValuedObjectIsTruthy ==
    /\ ctrl.mode = "return"
    /\ ~IsErr(ctrl.result)
    /\ ctrl.result.value # NONE
    /\ IsNumber(heap, ctrl.result.value)
    /\ NumberOf(heap, ctrl.result.value) = 1
    /\ Len(kont) > 1
    /\ Top.k = "eval_block"
    /\ kont[Len(kont) - 1].k = "assignment_value"
    /\ kont[Len(kont) - 1].assignment.value.t = "IfElse"
    /\ kont[Len(kont) - 1].assignment.value.condition = New("Bool")
    /\ is_false_or_nil(heap, Len(heap) - 1)
    /\ Len(heap) - 1 \notin {bool_false, nil}

-----------------------------------------------------------------------------
(* Properties of loops and of control-flow signals.                        *)

\* the item next returned can be bound to the loop's names
Bindable(h, item, binding_names) ==
    \/ Len(binding_names) = 1
    \/ /\ h[item].class = Tuple
       /\ h[item].primitive.kind = "Array"
       /\ Len(h[item].primitive.array) = Len(binding_names)
\* the loop's activation goes on in a frame of kind k
LoopGoesOn(k) ==
    /\ Len(kont') >= Len(kont)
    /\ SubSeq(kont', 1, Len(kont) - 1) = Caller
    /\ kont'[Len(kont)].k = k
-----------------------------------------------------------------------------
(* Properties of the built-in methods.                                     *)

\* an arithmetic or ordering method of Number is called with one argument that is
\* not a number
NumberMethodOnNonNumber ==
    /\ Running("call_method")
    /\ ctrl.method.body.kind = "System"
    /\ ctrl.method.body.function
            \in NumberBinaryMethods \ {"Number.__eq__", "Number.__neq__"}
    /\ Len(ctrl.arguments) = 1
    /\ IsNumber(heap, ctrl.receiver)
    /\ ~IsNumber(heap, ctrl.arguments[1])
\* C22: a built-in operator method called with an argument of the wrong primitive
\* kind returns a TypeMismatch error.
C22_TypeMismatchReturned ==
    [][NumberMethodOnNonNumber => ctrl' = Returning(Err("TypeMismatch"))]_vars
\* 1 + nil has ended the evaluator in the unwrap of the argument's number
C22_UnwrapOfNonNumber ==
    /\ ctrl = UnwrapNone
    /\ Len(kont) > 0
    /\ Top.k = "assignment_value"
    /\ Top.assignment.value = Binary(NumberLit(1), "Plus", NilLit)

-----------------------------------------------------------------------------
(* Array's push and pop on their own.  The root frame holds one array, of  *)
(* up to MaxLen elements, in the variables a and b; the host calls push    *)
(* and pop through either name and keeps in ctrl what it did last.         *)

ArrayElements == {bool_true, bool_false, nil}
ArrayNames == {"a", "b"}
TheArray == Len(BootstrapHeap) + 1
ArrayObject(elements) ==
    [set_property(new_of_class(Array), "__class__", Array)
        EXCEPT !.primitive = PrimitiveArray(elements)]
ElementsOf(h) == h[TheArray].primitive.array
ArrayIdle == [mode |-> "array", refs |-> <<>>]
\* push(element) has returned `result`; `before` are the elements it was called on
Pushed(element, before, result) ==
    [mode |-> "pushed", element |-> element, before |-> before, result |-> result,
     refs |-> <<>>]
\* pop() has returned `result`; `last` is the call the host made before it and
\* `before` the elements that call was made on
Popped(last, before, result) ==
    [mode |-> "popped", last |-> last, before |-> before, result |-> result,
     refs |-> <<>>]
\* the state after array.method_name(arguments), array read from the variable `name`
ArrayCall(name, method_name, arguments) ==
    LET this == resolve_variable(RuntimeOf(State), stack, name).value
    IN system_function(State, resolve_own_method(heap, heap[this].class, method_name),
                       this, arguments)

InitArray ==
    /\ debug_assertions = FALSE
    /\ \E elements \in UNION {[1..n -> ArrayElements] : n \in 0..MaxLen} :
          heap = Append(BootstrapHeap, ArrayObject(elements))
    /\ stack = <<[RootFrame EXCEPT !.variables =
                    Put(Put(@, "a", TheArray), "b", TheArray)]>>
    /\ stack_id = 0
    /\ strings = BootstrapStrings
    /\ string_count_marker = 0
    /\ ctrl = ArrayIdle
    /\ kont = <<>>
    /\ executed = 0
ArrayPush ==
    /\ Len(ElementsOf(heap)) < MaxLen
    /\ \E name \in ArrayNames, element \in ArrayElements :
          LET after == ArrayCall(name, "push", <<element>>)
          IN /\ heap' = after.heap
             /\ ctrl' = Pushed(element, ElementsOf(heap), after.ctrl)
    /\ UNCHANGED <<debug_assertions, stack, stack_id, strings, string_count_marker,
                   kont, executed>>
ArrayPop ==
    /\ \E name \in ArrayNames :
          LET after == ArrayCall(name, "pop", <<>>)
          IN /\ heap' = after.heap
             /\ ctrl' = Popped(ctrl.mode, IF ctrl.mode = "array" THEN <<>> ELSE ctrl.before,
                               after.ctrl)
    /\ UNCHANGED <<debug_assertions, stack, stack_id, strings, string_count_marker,
                   kont, executed>>
NextArray == ArrayPush \/ ArrayPop
SpecArray == InitArray /\ [][NextArray]_vars

\* C23: push(e) returns nil and appends e; a pop() that follows it returns e and
\* leaves the elements the push was called on; pop() on an empty array fails with
\* the index error and leaves it empty, and on any other array returns the last
\* element and leaves the ones before it; nothing but the array object changes,
\* whichever variable the array was reached through.
C23_PushThenPop ==
    [][/\ ctrl'.mode = "pushed" =>
            /\ ctrl'.result = Returning(Ok(nil))
            /\ ElementsOf(heap') = Append(ElementsOf(heap), ctrl'.element)
       /\ ctrl'.mode = "popped" /\ ctrl.mode = "pushed" =>
            /\ ctrl'.result = Returning(Ok(ctrl.element))
            /\ ElementsOf(heap') = ctrl.before
       /\ ctrl'.mode = "popped" =>
            IF ElementsOf(heap) = <<>>
            THEN ctrl'.result = Returning(Err("Index")) /\ ElementsOf(heap') = <<>>
            ELSE /\ ctrl'.result = Returning(Ok(ElementsOf(heap)[Len(ElementsOf(heap))]))
                 /\ Append(ElementsOf(heap'), ctrl'.result.result.value) = ElementsOf(heap)
       /\ \A id \in DOMAIN heap : id # TheArray => heap'[id] = heap[id]
       /\ DOMAIN heap' = DOMAIN heap
       /\ stack'[1].variables["a"] = TheArray
       /\ stack'[1].variables["b"] = TheArray]_vars
\* a pop that followed a push on an array of two elements has returned
C23_PoppedAfterPush ==
    /\ ctrl.mode = "popped"
    /\ ctrl.last = "pushed"
    /\ Len(ctrl.before) = 2
    /\ ElementsOf(heap) = ctrl.before
    /\ ctrl.result.result.value # ctrl.before[2]

-----------------------------------------------------------------------------
(* Properties of compound assignment.                                      *)

\* a compound assignment is at the step whose continuation frame is k
CompoundAt(k) ==
    /\ ReturningTo(k)
    /\ method_for_assignment_op(Top.assignment.op) # ""
\* the operator method of the compound assignment on top, called on lhs
OperatorCall(h, lhs, rhs) ==
    call_instance_method(h, lhs, method_for_assignment_op(Top.assignment.op), <<rhs>>)
\* the nearest frame that holds the variable binds it to the object
BoundTo(st, name, object) ==
    \E i \in DOMAIN st :
        /\ Has(st[i].variables, name)
        /\ st[i].variables[name] = object
        /\ \A j \in DOMAIN st : j > i => ~Has(st[j].variables, name)
-----------------------------------------------------------------------------
(* Properties of resolve_variable's method lookup.                         *)

\* resolve_variable has just returned an object it made: a method object
ProducedMethodObject ==
    /\ ctrl'.mode = "resolve_variable"
    /\ ctrl'.value \in DOMAIN heap' \ DOMAIN heap
\* the innermost frame of the scope stack that has a class, 0 when there is none
NearestClassFrame == Innermost({i \in DOMAIN stack : stack[i].class # NONE})
\* C25 as stated: a method object is produced only for a method that the own table
\* of the nearest frame's class holds.
C25_OwnTableOnly ==
    [][ProducedMethodObject =>
        /\ NearestClassFrame > 0
        /\ Has(heap[stack[NearestClassFrame].class].methods, ctrl'.name)
        /\ get_property(heap'[ctrl'.value], "__receiver__")
              = stack[NearestClassFrame].class]_vars
\* C25: when resolve_variable consults a frame's class it resolves the name along
\* the superclass chain of that class: a method object is produced only for a
\* method defined on that class or on one of its superclasses, the nearest of the
\* chain that defines the name; and it is produced whenever the chain defines the
\* name and no frame has the name as a local or through its instance.
C25_OwnOrInheritedMethod ==
    [][ctrl'.mode = "resolve_variable" /\ ctrl'.name # "self" =>
        LET name == ctrl'.name
            class == IF NearestClassFrame = 0 THEN NONE
                     ELSE stack[NearestClassFrame].class
            chain == IF class = NONE THEN <<>> ELSE SuperclassChain(heap, class)
            definers == {i \in DOMAIN chain : Has(heap[chain[i]].methods, name)}
            nearest == Innermost(InstanceFrames(stack))
            held == \/ LocalFrames(stack, name) # {}
                    \/ /\ nearest > 0
                       /\ get_property(heap[stack[nearest].instance], name) # NONE
        IN /\ ProducedMethodObject =>
                /\ definers # {}
                /\ heap'[ctrl'.value].class = Method
                /\ \E i \in definers :
                      /\ \A j \in definers : i <= j
                      /\ get_property(heap'[ctrl'.value], "__receiver__") = chain[i]
           /\ (definers # {} /\ ~held) => ProducedMethodObject]_vars
\* to_s has resolved, in a frame of class K, to a method object of Object's to_s,
\* which K's own table does not hold
C25_InheritedMethodObject ==
    /\ ctrl.mode = "resolve_variable"
    /\ ctrl.name = InheritedName
    /\ NearestClassFrame > 0
    /\ stack[NearestClassFrame].class = ScopeClass.value
    /\ ~Has(heap[ScopeClass.value].methods, InheritedName)
    /\ ctrl.value # NONE
    /\ heap[ctrl.value].class = Method
    /\ get_property(heap[ctrl.value], "__receiver__") = Object

-----------------------------------------------------------------------------
(* Properties of the closed-variable scan.                                 *)

\* C26: the scan of a closure body covers every statement and expression shape:
\* every name the body refers to as a variable, wherever it occurs (call arguments,
\* member-call arguments and the sub-expressions of assignment targets included),
\* is among the names the scan returns, and is a property of the closure object
\* when it resolves in the enclosing scope as the closure is created.
C26_ScanCoversEveryShape ==
    [][Evaluating("Closure") /\ ctrl'.mode = "return" /\ IsOk(ctrl'.result) =>
            \A name \in referenced_in_block(ctrl.expression.body) :
                /\ name \in Range(find_closed_vars_in_block(ctrl.expression.body))
                /\ \/ resolve_variable(RuntimeOf(State), stack, name).value = NONE
                   \/ get_property(heap'[ctrl'.result.value], name) # NONE]_vars
\* the closure of || { nil.m(x); x.p = 1; x[x] = 1 } has been made while x is
\* bound: the scan returned no name and the closure object has no property x
C26_ArgumentsAndTargetsSkipped ==
    /\ ReturningTo("assignment_value")
    /\ IsOk(ctrl.result)
    /\ Top.assignment.target = Variable("f")
    /\ Top.assignment.value.t = "Closure"
    /\ Top.assignment.value.body[1] = Expression(Send(NilLit, "m", <<Variable("x")>>))
    /\ find_closed_vars_in_block(Top.assignment.value.body) = <<>>
    /\ referenced_in_block(Top.assignment.value.body) = {"x"}
    /\ \E i \in DOMAIN stack : Has(stack[i].variables, "x")
    /\ get_property(heap[ctrl.result.value], "x") = NONE

-----------------------------------------------------------------------------
(* Properties of closure calls.                                            *)

\* call_method is entered with a closure object's own __call__ and a number of
\* arguments other than the number of its binding parameters
ClosureCalledWithWrongArity ==
    /\ ctrl.mode = "call_method"
    /\ heap[ctrl.receiver].class = Closure
    /\ ctrl.method.name = "__call__"
    /\ ctrl.method.body.kind = "User"
    /\ ctrl.method.class = ctrl.receiver
    /\ Len(ctrl.arguments) # Len(ctrl.method.params)
\* C27: calling a closure with a number of arguments other than the number of its
\* binding parameters returns the ArityMismatch error, expected the number of
\* parameters and actual the number of arguments, and the evaluator goes on.
C27_ClosureArityMismatch ==
    [][ClosureCalledWithWrongArity =>
            ctrl' = Returning(ArityMismatch(Len(ctrl.method.params),
                                            Len(ctrl.arguments)))]_vars
\* f = |p| { p }; f() has stopped the evaluator: the owner of the closure's __call__
\* is the closure object, which has no __name__ for the error to carry
C27_UnwrapOfClosureName ==
    /\ ctrl = UnwrapNone
    /\ kont = <<KExecProgram, KExecExpression>>
    /\ Has(stack[1].variables, "f")
    /\ LET f == stack[1].variables["f"]
       IN /\ heap[f].class = Closure
          /\ ~HasName(heap, f)
          /\ Has(heap[f].methods, "__call__")
          /\ heap[f].methods["__call__"].class = f
          /\ Len(heap[f].methods["__call__"].params) = 1

\* the body of a loop has returned, to the while loop or the for-in loop it is the
\* body of, with the signal
BodySignalled(signal) ==
    /\ ctrl = Returning(signal)
    /\ Len(kont) > 0
    /\ Top.k \in {"while_body", "for_in_body"}
C29_NoLoopSignalFromCall ==
    [][ReturnsToCall /\ ctrl'.mode = "return" =>
            ctrl'.result \notin {Break, Continue}]_vars
\* while true { (|| { break })() }: the loop's body has returned the Break that the
\* called closure's body raised, and the loop is about to end on it
C29_BreakReachedCallingLoop ==
    /\ BodySignalled(Break)
    /\ Top.k = "while_body"
    /\ Top.while_loop.body =
          <<Expression(Call(ClosureExpr(<<>>, <<BreakStmt>>), <<>>))>>

-----------------------------------------------------------------------------
(* Properties of the class links.                                          *)

\* the objects that are classes: the built-in ones and those a class definition
\* has bound to a global name
ClassObjects ==
    {id \in DOMAIN heap : HasName(heap, id) /\ Has(stack[1].variables, NameOf(heap, id))
                            /\ stack[1].variables[NameOf(heap, id)] = id}
\* C30: every object has a class; the class of Class is Class, the class of every
\* class object is Class, and the class of every other object is a class object.
C30_ClassLinks ==
    /\ heap[Class].class = Class
    /\ \A id \in DOMAIN heap :
          /\ heap[id].class \in DOMAIN heap
          /\ id \in ClassObjects => heap[id].class = Class
          /\ is_class(heap, heap[id].class)
\* x = B() has been run for a class B without an init: the class of the object
\* bound to x is an instance of B, which is no class object, and Class is reached
\* from x only at the third link
C30_InstanceOfAnInstance ==
    /\ Has(stack[1].variables, "x")
    /\ Has(stack[1].variables, "B")
    /\ LET x == stack[1].variables["x"]
           B == stack[1].variables["B"]
       IN /\ heap[x].class # B
          /\ heap[heap[x].class].class = B
          /\ heap[B].class = Class
          /\ heap[x].class \notin ClassObjects

-----------------------------------------------------------------------------
(* Properties of the superclass links.                                     *)

\* the object reached from id by n superclass links, NONE once the chain has ended
RECURSIVE SuperclassAfter(_, _, _)
SuperclassAfter(h, id, n) ==
    IF id = NONE \/ n = 0 THEN id
    ELSE SuperclassAfter(h, h[id].superclass, n - 1)
\* C31: the superclass chain of every object is acyclic: it ends after fewer links
\* than there are objects, never comes back to an object it has passed, and so
\* resolve_own_method takes finitely many superclass steps.
C31_SuperclassChainAcyclic ==
    \A id \in DOMAIN heap :
        /\ heap[id].superclass \in DOMAIN heap \cup {NONE}
        /\ SuperclassAfter(heap, id, Len(heap)) = NONE
        /\ \A n \in 1..Len(heap) : SuperclassAfter(heap, id, n) # id
\* two classes have been defined by the program, each with Object as superclass,
\* where the chain ends
C31_DefinedClassesUnderObject ==
    /\ ctrl.mode = "exited"
    /\ heap[Object].superclass = NONE
    /\ \E c, d \in DOMAIN heap :
          /\ Len(BootstrapHeap) < c /\ c < d
          /\ is_class(heap, c) /\ is_class(heap, d)
          /\ heap[c].superclass = Object /\ heap[d].superclass = Object
          /\ SuperclassAfter(heap, d, 2) = NONE

-----------------------------------------------------------------------------
(* Properties of use statements.                                           *)

\* C32: a use statement adds a class to the top frame's open classes: a path that
\* resolves resolves to a class object, so every open class of every frame is a
\* class object.
C32_OpenClassesAreClasses ==
    /\ \A i \in DOMAIN stack : \A j \in DOMAIN stack[i].open_classes :
            is_class(heap, stack[i].open_classes[j])
    /\ (ctrl.mode = "exec" /\ ctrl.statement.t = "Use") =>
            LET found == resolve_class_from_path(RuntimeOf(State), stack,
                                                 ctrl.statement.path).result
            IN IsOk(found) => is_class(heap, found.value)
\* x = 1; use x has run: the Number bound to x is an open class of the root frame
C32_NumberOpened ==
    /\ ctrl.mode = "exited"
    /\ IsOk(ctrl.result)
    /\ Has(stack[1].variables, "x")
    /\ IsNumber(heap, stack[1].variables["x"])
    /\ \E j \in DOMAIN stack[1].open_classes :
          stack[1].open_classes[j] = stack[1].variables["x"]

-----------------------------------------------------------------------------
(* Properties of class definitions.                                        *)

\* what the name of the class definition about to run resolves to
DefinedName == resolve_variable(RuntimeOf(State), stack, ctrl.statement.name).value
\* the class the definition about to run has taken: the current class of the frame
\* pushed for its body, or for an empty body the global of that name
DefinedClass ==
    IF Len(ctrl.statement.body) > 0 THEN stack'[Len(stack')].class
    ELSE stack'[1].variables[ctrl.statement.name]
\* C33: a class definition resolves or creates.  When its name resolves to a class
\* object that object is taken, with the methods it has, and no class is made;
\* otherwise a new class is made, with Class as class, Object as superclass, the
\* name as __name__ and no method, and is bound to the name in the bottom frame.
\* The body runs in a new frame whose current class is the class taken and which
\* has no instance.  No step ever removes or replaces a method of a class.
C33_ResolveOrCreate ==
    [][/\ Executing("ClassDefinition") =>
            LET name == ctrl.statement.name
                class == DefinedClass
            IN /\ IF DefinedName # NONE /\ is_class(heap, DefinedName)
                  THEN /\ class = DefinedName
                       /\ heap'[class] = heap[class]
                       /\ stack'[1] = stack[1]
                       /\ \A id \in DOMAIN heap' \ DOMAIN heap : ~is_class(heap', id)
                  ELSE /\ class \in DOMAIN heap' \ DOMAIN heap
                       /\ heap'[class].class = Class
                       /\ heap'[class].superclass = Object
                       /\ heap'[class].methods = EmptyMap
                       /\ HasName(heap', class) /\ NameOf(heap', class) = name
                       /\ stack'[1].variables = Put(stack[1].variables, name, class)
               /\ IF Len(ctrl.statement.body) > 0
                  THEN /\ Len(stack') = Len(stack) + 1
                       /\ stack'[Len(stack')].class = class
                       /\ stack'[Len(stack')].instance = NONE
                       /\ ctrl' = Exec(ctrl.statement.body[1])
                  ELSE Len(stack') = Len(stack) /\ ctrl' = Returning(Ok(NONE))
       /\ \A id \in DOMAIN heap : \A name \in DOMAIN heap[id].methods :
             /\ Has(heap'[id].methods, name)
             /\ heap'[id].methods[name] = heap[id].methods[name]]_vars
\* class A { .. }; class A { def z() {} } has run: there is one class named A, and
\* it has the methods of the first definition and the z of the second
C33_ReopenedClassGainedMethod ==
    /\ ctrl.mode = "exited"
    /\ IsOk(ctrl.result)
    /\ Has(stack[1].variables, "A")
    /\ LET A == stack[1].variables["A"]
       IN /\ {"m", "n", "z"} \subseteq DOMAIN heap[A].methods
          /\ \A id \in DOMAIN heap :
                (is_class(heap, id) /\ HasName(heap, id) /\ NameOf(heap, id) = "A")
                    => id = A

-----------------------------------------------------------------------------
(* Properties of method definitions.                                       *)

\* the innermost frame that has a current class
NearestClass == stack[Innermost({i \in DOMAIN stack : stack[i].class # NONE})].class
\* C34: a method definition attaches the method to the class of the nearest frame
\* that has a current class, with receiver kind Class when the definition has the
\* class-method marker or that class is Main, and Instance otherwise.
C34_AttachedToNearestClass ==
    [][(Executing("MethodDefinition")
            /\ ~Has(heap[NearestClass].methods, ctrl.statement.name)) =>
        LET method_def == ctrl.statement
            method == heap'[NearestClass].methods[method_def.name]
        IN /\ ctrl' = Returning(Ok(NONE))
           /\ DOMAIN heap'[NearestClass].methods =
                 DOMAIN heap[NearestClass].methods \cup {method_def.name}
           /\ method.class = NearestClass
           /\ method.name = method_def.name
           /\ method.params = method_def.parameters
           /\ method.body = UserBody(method_def.body)
           /\ method.receiver =
                 IF method_def.is_class_method \/ NearestClass = Main
                 THEN "Class" ELSE "Instance"
           /\ \A id \in DOMAIN heap \ {NearestClass} : heap'[id] = heap[id]]_vars
\* (|| { def q() {} })() has run: q, defined in the frame of the closure's call,
\* which has no class, is a method of Main with receiver kind Class
C34_DefinedInsideCall ==
    /\ ctrl.mode = "exited"
    /\ IsOk(ctrl.result)
    /\ Has(heap[Main].methods, "q")
    /\ heap[Main].methods["q"].receiver = "Class"
    /\ heap[Main].methods["q"].class = Main

-----------------------------------------------------------------------------
(* Properties of the built-in objects.                                     *)

BuiltinClasses == {id \in DOMAIN BootstrapHeap : is_class(BootstrapHeap, id)}
\* C35: when exec_program has returned, nil, true, false and the built-in classes
\* have the properties bootstrap gave them, and the built-in classes other than
\* Main the methods bootstrap gave them.
C35_BuiltinsUnchanged ==
    ctrl.mode = "exited" =>
        /\ \A id \in {nil, bool_true, bool_false} \cup BuiltinClasses :
                heap[id].properties = BootstrapHeap[id].properties
        /\ \A id \in BuiltinClasses \ {Main} :
                heap[id].methods = BootstrapHeap[id].methods
\* nil.p = 1 has run: nil has a property p
C35_PropertySetOnNil ==
    /\ ctrl.mode = "exited"
    /\ IsOk(ctrl.result)
    /\ get_property(heap[nil], "p") # NONE
    /\ get_property(BootstrapHeap[nil], "p") = NONE

-----------------------------------------------------------------------------
(* Properties of the bottom frame.                                         *)

\* C36: the scope stack is never empty; its bottom frame is the one bootstrap
\* pushed, with Main as current class and Main among its open classes; no
\* operation pops it, so current_class always finds a class.
C36_BottomFrameStays ==
    /\ Len(stack) >= 1
    /\ stack[1].id = 0
    /\ stack[1].class = Main
    /\ stack[1].instance = NONE
    /\ Main \in Range(stack[1].open_classes)
    /\ current_class(stack) # NONE
\* a run has ended after a call popped the frame a loop of its body had left
\* instead of its own, which is still on the stack: the bottom frame is the root
C36_RootUnderLeftFrames ==
    /\ ctrl.mode = "exited"
    /\ Len(stack) = 2
    /\ stack[2].instance # NONE
    /\ stack_id > 2
    /\ stack[1].id = 0
    /\ stack[1].class = Main

-----------------------------------------------------------------------------
(* Properties of assignment followed by resolution.                        *)

\* C37: right after assign_variable(name, v), resolve_variable(name) returns v,
\* whatever the stack holds.
C37_ResolvesToAssigned ==
    ctrl.mode = "resolve_after_assign" => ctrl.value = ctrl.object
\* the name was a local of a frame further out only, where the assignment wrote
\* it; resolution met, further in, the frame of a call on an instance that has the
\* name as a property, and returned that property instead
C37_PropertyResolvedInstead ==
    /\ ctrl.mode = "resolve_after_assign"
    /\ ctrl.value # ctrl.object
    /\ \E i \in DOMAIN stack :
          /\ Has(stack[i].variables, ctrl.name)
          /\ stack[i].variables[ctrl.name] = ctrl.object
          /\ \E j \in DOMAIN stack :
                /\ j > i
                /\ stack[j].instance # NONE
                /\ get_property(heap[stack[j].instance], ctrl.name) = ctrl.value

-----------------------------------------------------------------------------
(* Properties of the bindings made inside loops and calls.                 *)

\* the loops and calls of user bodies in progress, each holding the id of the
\* frame it pushed; the frames that were on the stack before it started are those
\* with a smaller id
LoopsAndCalls ==
    {a \in DOMAIN kont :
        kont[a].k \in {"while_condition", "while_body", "for_in_next", "for_in_body",
                       "call_method"}}
\* the names that frame i of the stack gains in this step
NamesGained(i) == DOMAIN stack'[i].variables \ DOMAIN stack[i].variables
\* C38 as stated: while a loop or a call of a user body runs, and when it
\* completes, no frame that was on the stack before it started gains a name.
C38_NoNameGainedBelow ==
    [][\A a \in LoopsAndCalls : \A i \in DOMAIN stack :
            (stack[i].id < kont[a].stack_id /\ i <= Len(stack'))
                => NamesGained(i) = {}]_vars
\* C38: while a loop or a call of a user body runs, and when it completes, no frame
\* that was on the stack before it started gains a name, except that a class
\* definition run inside it binds the name of a class it creates in the bottom
\* frame; names first assigned in the body and for-in variables are bound in the
\* frames above and go with them.
C38_OnlyClassNamesGainedBelow ==
    [][\A a \in LoopsAndCalls : \A i \in DOMAIN stack :
            (stack[i].id < kont[a].stack_id /\ i <= Len(stack'))
                => /\ stack'[i].id = stack[i].id
                   /\ NamesGained(i) \subseteq
                        IF i = 1 /\ Executing("ClassDefinition")
                        THEN {ctrl.statement.name} ELSE {}]_vars
\* class It {..}; for a in It() {} has run to its end: the iterator was used up,
\* the loop's frame is gone and the bottom frame has no a
C38_LoopVariableGone ==
    /\ ctrl.mode = "exited"
    /\ IsOk(ctrl.result)
    /\ Len(stack) = 1
    /\ ~Has(stack[1].variables, "a")
    /\ Has(stack[1].variables, "It")
    /\ \E id \in DOMAIN heap :
          /\ heap[id].class = stack[1].variables["It"]
          /\ get_property(heap[id], "done") = bool_true

-----------------------------------------------------------------------------
(* Properties of the Bool objects.                                         *)

\* the objects of class Bool whose value is false
FalseObjects ==
    {id \in DOMAIN heap :
        heap[id].class = Bool /\ heap[id].primitive = PrimitiveBoolean(FALSE)}
\* C39: the only object of class Bool whose value is false is the bool_false
\* singleton, so every such object is falsy.
C39_OneFalseObject ==
    /\ FalseObjects = {bool_false}
    /\ \A id \in FalseObjects : is_falsy(id)
\* Bool() has returned to the if it is the condition of: an object of class Bool
\* with the value false that is not bool_false, and that is_falsy denies
C39_ConstructedFalseIsTruthy ==
    /\ ReturningTo("if_condition")
    /\ IsOk(ctrl.result)
    /\ Top.if_else.condition = New("Bool")
    /\ ctrl.result.value \in FalseObjects
    /\ ctrl.result.value # bool_false
    /\ is_truthy(ctrl.result.value)

-----------------------------------------------------------------------------
(* Properties of the intern table's sweep marker.                          *)

\* the objects still referred to once the step is over
AliveAfter == Reachable(heap, Roots \cap DOMAIN heap, {})'
\* the table after the step holds exactly the entries of `table` whose object is
\* still alive, and the marker is the size of the table
SweptFrom(table) ==
    /\ DOMAIN strings' = {key \in DOMAIN table : table[key] \in AliveAfter}
    /\ \A key \in DOMAIN strings' : strings'[key] = table[key]
    /\ string_count_marker' = Cardinality(DOMAIN strings')
\* C40: the intern table never has fewer entries than string_count_marker; a call
\* of create_string that allocates sweeps exactly when the table with the new
\* entry has STRING_ALLOCATION_THRESHOLD entries or more above the marker, and
\* otherwise only adds the entry; a call that finds the string live changes
\* neither table nor marker; and after any sweep the table holds exactly the
\* entries whose object is alive and the marker equals the size of the table.
C40_MarkerUnderTableSize ==
    /\ [](Cardinality(DOMAIN strings) >= string_count_marker)
    /\ [][/\ ctrl'.mode = "create_string" =>
               IF Len(heap') > Len(heap)
               THEN LET table == Put(strings, ctrl'.value, ctrl'.object)
                    IN IF Cardinality(DOMAIN table) - string_count_marker
                            >= STRING_ALLOCATION_THRESHOLD
                       THEN SweptFrom(table)
                       ELSE /\ strings' = table
                            /\ string_count_marker' = string_count_marker
               ELSE /\ strings' = strings
                    /\ string_count_marker' = string_count_marker
          /\ ctrl'.mode = "strings" /\ <<strings, string_count_marker>>'
                                        # <<strings, string_count_marker>> =>
               SweptFrom(strings)]_vars
\* the allocation that brought the table to STRING_ALLOCATION_THRESHOLD entries
\* above the marker has swept: the dead entries are gone, the new string is in the
\* table, and the marker is the size of the table
C40_AllocationSwept ==
    /\ ctrl.mode = "create_string"
    /\ ctrl.object = Len(heap)
    /\ Len(heap) = Len(BootstrapHeap) + DeadStrings + 2
    /\ Has(strings, ctrl.value) /\ strings[ctrl.value] = ctrl.object
    /\ \A i \in 1..DeadStrings : ~Has(strings, DroppedName(i))
    /\ string_count_marker = Cardinality(DOMAIN strings)
    /\ string_count_marker > 0
    /\ string_count_marker < STRING_ALLOCATION_THRESHOLD

====
